---- MODULE Spec2Model ----
(***************************************************************************)
(* State-machine model of FireScraper.                                     *)
(*                                                                         *)
(*   Spec        the crawl poller, crawl_and_save, in its two versions:    *)
(*               scripts/crawl.py (CrawlConfig, try/finally, error_count)  *)
(*               and the older top-level crawl.py.                         *)
(*   SearchSpec  the search entry points and the three search strategies   *)
(*               of scripts/claude_scraper.py, with the CLI of             *)
(*               firescraper.py.                                           *)
(*                                                                         *)
(* Strings the code inspects character by character (URLs, paths,          *)
(* language tags, file names) are sequences of one-character strings.      *)
(***************************************************************************)
EXTENDS Integers, Sequences, FiniteSets, TLC

(***************************************************************************)
(* Bounds of the model.                                                    *)
(***************************************************************************)
\* polls (GET /v1/crawl/<id>) issued in one run
MaxPolls == 2
\* records drawn from the "data" list of one snapshot
MaxData == 2

(***************************************************************************)
(* Strings.                                                                *)
(***************************************************************************)
\* str.startswith
StartsWith(s, p) ==
    /\ Len(p) <= Len(s)
    /\ SubSeq(s, 1, Len(p)) = p

\* the `in` operator on two strings
Contains(s, sub) ==
    \E i \in 0..(Len(s) - Len(sub)) : SubSeq(s, i + 1, i + Len(sub)) = sub

RECURSIVE LStrip(_, _)
LStrip(s, c) ==
    IF s # << >> /\ Head(s) = c THEN LStrip(Tail(s), c) ELSE s

RECURSIVE RStrip(_, _)
RStrip(s, c) ==
    IF s # << >> /\ s[Len(s)] = c THEN RStrip(SubSeq(s, 1, Len(s) - 1), c) ELSE s

\* str.strip(c) for a one-character c
Strip(s, c) == RStrip(LStrip(s, c), c)

\* str.replace(a, b) for one-character a and b
Replace(s, a, b) == [i \in 1..Len(s) |-> IF s[i] = a THEN b ELSE s[i]]

\* code points of the characters the model's strings are made of
Ord(c) ==
    CASE c = "-" -> 45
      [] c = "." -> 46
      [] c = "/" -> 47
      [] c = ":" -> 58
      [] c = "a" -> 97
      [] c = "d" -> 100
      [] c = "e" -> 101
      [] c = "h" -> 104
      [] c = "n" -> 110
      [] c = "p" -> 112
      [] c = "s" -> 115
      [] c = "t" -> 116
      [] c = "U" -> 85
      [] c = "S" -> 83
      [] c = "i" -> 105
      [] c = "m" -> 109
      [] c = "x" -> 120
      [] OTHER -> 0

\* a < b for two strings, as Python orders str (by code point, prefix first)
RECURSIVE StrLess(_, _)
StrLess(a, b) ==
    IF b = << >> THEN FALSE
    ELSE IF a = << >> THEN TRUE
    ELSE IF Head(a) # Head(b) THEN Ord(Head(a)) < Ord(Head(b))
    ELSE StrLess(Tail(a), Tail(b))

(***************************************************************************)
(* get_safe_filename.                                                      *)
(***************************************************************************)
\* longest cleaned path that is kept as the file name
NameMax == 200
\* length of hashlib.md5(...).hexdigest()
DigestLen == 32

HexDigits ==
    <<"0", "1", "2", "3", "4", "5", "6", "7", "8", "9", "a", "b", "c", "d", "e", "f">>

\* a 24-bit checksum of the characters of s, computed over halves
RECURSIVE Checksum(_)
Checksum(s) ==
    IF s = << >> THEN 7
    ELSE IF Len(s) = 1 THEN Ord(s[1]) + 11
    ELSE LET half == Len(s) \div 2
         IN  (31 * Checksum(SubSeq(s, 1, half))
                + 17 * Checksum(SubSeq(s, half + 1, Len(s)))
                + Len(s)) % 16777216

\* hashlib.md5(s.encode()).hexdigest(): DigestLen hexadecimal digits, a
\* function of the content of s alone.  The digits are those of a checksum,
\* not MD5's.
Md5HexDigest(s) ==
    [i \in 1..DigestLen |->
        HexDigits[((Checksum(s) \div (i * i + 1)) % 16) + 1]]

\* url_path.strip("/").replace("/", "-") or "index"
CleanedPath(url_path) ==
    LET cleaned == Replace(Strip(url_path, "/"), "/", "-")
    IN  IF cleaned = << >> THEN <<"i", "n", "d", "e", "x">> ELSE cleaned

\* get_safe_filename with names of 200 characters hashed as well
get_safe_filename_hashed_from_limit(url_path) ==
    LET filename == CleanedPath(url_path)
        hashed   == IF Len(filename) >= NameMax
                      THEN Md5HexDigest(filename)
                      ELSE filename
    IN  hashed \o <<".", "m", "d">>

\* get_safe_filename of crawl.py
legacy_get_safe_filename(url_path) ==
    LET filename == CleanedPath(url_path)
        hashed   == IF Len(filename) > NameMax
                      THEN Md5HexDigest(filename)
                      ELSE filename
    IN  hashed \o <<".", "m", "d">>

\* get_safe_filename without the md5 branch
get_safe_filename_never_hashed(url_path) ==
    CleanedPath(url_path) \o <<".", "m", "d">>

get_safe_filename(url_path) ==
    LET filename == CleanedPath(url_path)
        hashed   == IF Len(filename) > NameMax
                      THEN Md5HexDigest(filename)
                      ELSE filename
    IN  hashed \o <<".", "m", "d">>

(***************************************************************************)
(* The pages the remote crawl service can report.                          *)
(***************************************************************************)
URLs == {"U1", "U2", "U3"}

\* further URLs the page filter is applied to: U4 has -en in its host and
\* not in its path, U5 has -es in its path
FilterUrls == URLs \cup {"U4", "U5"}

\* urlparse(url).path
UrlPath(u) ==
    CASE u = "U1" -> <<"/", "d", "/", "e", "n">>
      [] u = "U2" -> <<"/", "d", "-", "e", "n">>
      [] u = "U3" -> <<"/">>
      [] u = "U4" -> <<"/", "d">>
      [] u = "U5" -> <<"/", "d", "-", "e", "s">>

\* urlparse(url).netloc
UrlHost(u) == IF u = "U4" THEN <<"a", "-", "e", "n">> ELSE <<"a">>

\* the URL as the string the service reports
UrlStr(u) == <<"h", "t", "t", "p", ":", "/", "/">> \o UrlHost(u) \o UrlPath(u)

En == <<"e", "n">>
EnUS == <<"e", "n", "-", "U", "S">>
Es == <<"e", "s">>

\* the "metadata" dict of a record; language = << >> when the key is absent,
\* languageIsStr = FALSE when its value is not a str (a list of tags)
Metadata(hasUrl, u, language, languageIsStr, hasRawHtml) ==
    [hasUrl |-> hasUrl, url |-> u, language |-> language,
     languageIsStr |-> languageIsStr, hasRawHtml |-> hasRawHtml]

\* one element of status["data"]
Item(hasMarkdown, hasMetadata, markdown, metadata) ==
    [hasMarkdown |-> hasMarkdown, hasMetadata |-> hasMetadata,
     markdown |-> markdown, metadata |-> metadata]

\* U1 and U2 derive the same file name, U2 carries the marker -en, U3 is
\* the site root
Items ==
    { Item(TRUE, TRUE, "c1", Metadata(TRUE, "U1", EnUS, TRUE, TRUE)),
      Item(TRUE, TRUE, "c2", Metadata(TRUE, "U2", Es, TRUE, FALSE)),
      Item(TRUE, TRUE, "c3", Metadata(TRUE, "U3", Es, TRUE, TRUE)),
      Item(TRUE, TRUE, "c4", Metadata(TRUE, "U1", En, FALSE, FALSE)),
      Item(FALSE, TRUE, "c5", Metadata(TRUE, "U3", << >>, TRUE, FALSE)),
      Item(TRUE, TRUE, "c6", Metadata(FALSE, "U3", << >>, TRUE, FALSE)),
      Item(TRUE, FALSE, "c7", Metadata(FALSE, "U3", << >>, TRUE, FALSE)) }

NoItem == Item(FALSE, FALSE, "none", Metadata(FALSE, "U1", << >>, TRUE, FALSE))

FileNames == { get_safe_filename(UrlPath(u)) : u \in URLs }

NoFile == "no file"
\* what open(path, "w") leaves when the write after it fails
Truncated == "truncated"
\* content of a file left by an earlier run
OldContent == "old"

(***************************************************************************)
(* CrawlConfig.                                                            *)
(***************************************************************************)
Configs ==
    [languages : {{}, {En}}, save_raw_html : BOOLEAN]

\* the older crawl.py takes no configuration
NoConfig == [languages |-> {}, save_raw_html |-> FALSE]

(***************************************************************************)
(* is_english_page.                                                        *)
(***************************************************************************)
UrlHasMarker(u, langs) ==
    \E lang \in langs : Contains(UrlStr(u), <<"-">> \o lang)

\* metadata.get("language").startswith(lang) on a value that is not a str
is_english_page_raises(u, metadata, cfg) ==
    /\ cfg.languages # {}
    /\ ~UrlHasMarker(u, cfg.languages)
    /\ metadata.language # << >>
    /\ ~metadata.languageIsStr

is_english_page(u, metadata, cfg) ==
    IF cfg.languages = {} THEN TRUE
    ELSE IF UrlHasMarker(u, cfg.languages) THEN TRUE
    ELSE IF metadata.language # << >>
      THEN \E lang \in cfg.languages : StartsWith(metadata.language, lang)
    ELSE TRUE

\* crawl.py: pages whose URL carries -zh, -es or -fr are not English
legacy_is_english_page_raises(u, metadata) ==
    /\ \A m \in {<<"-", "z", "h">>, <<"-", "e", "s">>, <<"-", "f", "r">>} :
          ~Contains(UrlStr(u), m)
    /\ metadata.language # << >>
    /\ ~metadata.languageIsStr

legacy_is_english_page(u, metadata) ==
    IF \E m \in {<<"-", "z", "h">>, <<"-", "e", "s">>, <<"-", "f", "r">>} :
          Contains(UrlStr(u), m)
      THEN FALSE
    ELSE IF metadata.language # << >> THEN StartsWith(metadata.language, En)
    ELSE TRUE

(***************************************************************************)
(* save_page.  The file system can fail a call in three places:            *)
(*   "open"   open(filepath, "w") raises, no file is created               *)
(*   "write"  f.write(content) raises after open created the file          *)
(*   "html"   the .md file is written, writing the .html sibling raises    *)
(* The result is the value returned ("True", "False") or "raise", the      *)
(* directory after the call, and the branch taken.                         *)
(***************************************************************************)
Faults == {"none", "open", "write", "html"}

SaveResult(r, f, h, why, fault) ==
    [ret |-> r, files |-> f, htmls |-> h, why |-> why, fault |-> fault]

NoRet == SaveResult("none", << >>, {}, "none", "none")

\* save_page without the `if os.path.exists(filepath)` check
save_page_overwrites(fs, hs, u, content, metadata, cfg, fault) ==
    LET filename == get_safe_filename(UrlPath(u))
        wantHtml == cfg.save_raw_html /\ metadata.hasRawHtml
    IN  IF is_english_page_raises(u, metadata, cfg)
          THEN SaveResult("raise", fs, hs, "raised", "none")
        ELSE IF ~is_english_page(u, metadata, cfg)
          THEN SaveResult("False", fs, hs, "language", "none")
        ELSE IF fault = "open"
          THEN SaveResult("False", fs, hs, "failed", "open")
        ELSE IF fault = "write"
          THEN SaveResult("False", [fs EXCEPT ![filename] = Truncated], hs,
                          "failed", "write")
        ELSE IF fault = "html" /\ wantHtml
          THEN SaveResult("False", [fs EXCEPT ![filename] = content], hs,
                          "failed", "html")
        ELSE SaveResult("True", [fs EXCEPT ![filename] = content],
                        IF wantHtml THEN hs \cup {filename} ELSE hs,
                        "written", "none")

\* save_page with the sibling written whatever config.save_raw_html is
save_page_ignores_flag(fs, hs, u, content, metadata, cfg, fault) ==
    LET filename == get_safe_filename(UrlPath(u))
        wantHtml == metadata.hasRawHtml
    IN  IF is_english_page_raises(u, metadata, cfg)
          THEN SaveResult("raise", fs, hs, "raised", "none")
        ELSE IF ~is_english_page(u, metadata, cfg)
          THEN SaveResult("False", fs, hs, "language", "none")
        ELSE IF fs[filename] # NoFile
          THEN SaveResult("False", fs, hs, "exists", "none")
        ELSE IF fault = "open"
          THEN SaveResult("False", fs, hs, "failed", "open")
        ELSE IF fault = "write"
          THEN SaveResult("False", [fs EXCEPT ![filename] = Truncated], hs,
                          "failed", "write")
        ELSE IF fault = "html" /\ wantHtml
          THEN SaveResult("False", [fs EXCEPT ![filename] = content], hs,
                          "failed", "html")
        ELSE SaveResult("True", [fs EXCEPT ![filename] = content],
                        IF wantHtml THEN hs \cup {filename} ELSE hs,
                        "written", "none")

save_page(fs, hs, u, content, metadata, cfg, fault) ==
    LET filename == get_safe_filename(UrlPath(u))
        wantHtml == cfg.save_raw_html /\ metadata.hasRawHtml
    IN  IF is_english_page_raises(u, metadata, cfg)
          THEN SaveResult("raise", fs, hs, "raised", "none")
        ELSE IF ~is_english_page(u, metadata, cfg)
          THEN SaveResult("False", fs, hs, "language", "none")
        ELSE IF fs[filename] # NoFile
          THEN SaveResult("False", fs, hs, "exists", "none")
        ELSE IF fault = "open"
          THEN SaveResult("False", fs, hs, "failed", "open")
        ELSE IF fault = "write"
          THEN SaveResult("False", [fs EXCEPT ![filename] = Truncated], hs,
                          "failed", "write")
        ELSE IF fault = "html" /\ wantHtml
          THEN SaveResult("False", [fs EXCEPT ![filename] = content], hs,
                          "failed", "html")
        ELSE SaveResult("True", [fs EXCEPT ![filename] = content],
                        IF wantHtml THEN hs \cup {filename} ELSE hs,
                        "written", "none")

\* crawl.py: no configuration, no .html sibling, and a failed write is not
\* caught
legacy_save_page(fs, hs, u, content, metadata, fault) ==
    LET filename == get_safe_filename(UrlPath(u))
    IN  IF legacy_is_english_page_raises(u, metadata)
          THEN SaveResult("raise", fs, hs, "raised", "none")
        ELSE IF ~legacy_is_english_page(u, metadata)
          THEN SaveResult("False", fs, hs, "language", "none")
        ELSE IF fs[filename] # NoFile
          THEN SaveResult("False", fs, hs, "exists", "none")
        ELSE IF fault = "open"
          THEN SaveResult("raise", fs, hs, "failed", "open")
        ELSE IF fault = "write"
          THEN SaveResult("raise", [fs EXCEPT ![filename] = Truncated], hs,
                          "failed", "write")
        ELSE SaveResult("True", [fs EXCEPT ![filename] = content], hs,
                        "written", "none")

(***************************************************************************)
(* save_visited_urls.                                                      *)
(***************************************************************************)
\* the least of a non-empty set of URLs in str order
MinUrl(S) == CHOOSE u \in S : \A v \in S \ {u} : StrLess(UrlStr(u), UrlStr(v))

\* sorted(visited_urls)
RECURSIVE sorted(_)
sorted(S) ==
    IF S = {} THEN << >> ELSE <<MinUrl(S)>> \o sorted(S \ {MinUrl(S)})

\* the lines written to visited_urls.txt
NoManifest == [exists |-> FALSE, lines |-> << >>]

\* a visited_urls.txt left in the output directory by an earlier run
OldManifest == [exists |-> TRUE, lines |-> <<"U3", "U1">>]

\* save_visited_urls with the file opened for appending
save_visited_urls_appends(visited) ==
    [exists |-> TRUE, lines |-> OldManifest.lines \o sorted(visited)]

save_visited_urls(visited) == [exists |-> TRUE, lines |-> sorted(visited)]

(***************************************************************************)
(* crawl_and_save: the state of one run.                                   *)
(***************************************************************************)
VARIABLES
    script,          \* which crawl_and_save runs: Scripts or Legacy
    config,          \* the CrawlConfig of the run
    pc,              \* the statement crawl_and_save is at
    files,           \* output directory: .md file name -> content
    htmls,           \* .md file names whose .html sibling is written
    manifest,        \* visited_urls.txt
    saved_count,
    skipped_count,
    error_count,
    visited_urls,
    last_status,
    status,          \* what the loop has read of the latest response
    item,            \* the record of status["data"] the loop is at
    idx,             \* records of the snapshot drawn so far
    ret,             \* outcome of the save_page call being counted
    printed,         \* the latest poll printed a progress line
    submits,         \* POST /v1/crawl requests made
    submitResult,    \* outcome of the submit request
    polls,           \* GET /v1/crawl/<id> requests made
    manifestWrites,  \* calls of save_visited_urls
    exitKind,        \* how the poll loop was left
    intr,            \* where interrupts arrived: caught, escaped
    atExit,          \* polls, save_page calls and visited set on leaving the loop
    saveCalls,       \* URL -> save_page calls made with it
    outcome,         \* URL -> outcome counted for it
    appearances      \* records with markdown, metadata and url passed by the loop

\* url = item["metadata"]["url"] of the record being saved
url == item.metadata.url

crawlVars ==
    <<script, config, pc, files, htmls, manifest, saved_count, skipped_count,
      error_count, visited_urls, last_status, status, item, idx, ret,
      printed, submits, submitResult, polls, manifestWrites, exitKind, intr,
      atExit, saveCalls, outcome, appearances>>

Scripts == "scripts/crawl.py"
Legacy == "crawl.py"

\* statements inside `while True`
LoopPcs == {"poll", "items", "save", "count", "mark", "progress", "sleep"}
\* ways crawl_and_save ends: it returns, calls sys.exit(1), or lets a
\* KeyboardInterrupt or (crawl.py) another exception out
EndPcs == {"returned", "exit1", "interrupted_out", "crashed"}

\* (completed, total) of a response
Pairs == {<<0, 0>>, <<1, 2>>}

\* the response before the loop has read its "completed", "total", "status"
Unread == [status |-> "unread", pair |-> << >>]

RECURSIVE SumOver(_, _)
SumOver(f, S) ==
    IF S = {} THEN 0
    ELSE LET x == CHOOSE y \in S : TRUE IN f[x] + SumOver(f, S \ {x})

TotalSaves == SumOver(saveCalls, URLs)

ExitSnapshot ==
    [polls |-> polls, saves |-> TotalSaves, visited |-> visited_urls]

CrawlInit ==
    /\ script \in {Scripts, Legacy}
    /\ config \in (IF script = Scripts THEN Configs ELSE {NoConfig})
    /\ pc = "submit"
    /\ \E old \in SUBSET {get_safe_filename(UrlPath("U3"))} :
          files = [f \in FileNames |-> IF f \in old THEN OldContent ELSE NoFile]
    /\ htmls = {}
    /\ manifest \in {NoManifest, OldManifest}
    /\ saved_count = 0
    /\ skipped_count = 0
    /\ error_count = 0
    /\ visited_urls = {}
    /\ last_status = << >>
    /\ status = Unread
    /\ item = NoItem
    /\ idx = 0
    /\ ret = NoRet
    /\ printed = FALSE
    /\ submits = 0
    /\ submitResult = "none"
    /\ polls = 0
    /\ manifestWrites = 0
    /\ exitKind = "none"
    /\ intr = [caught |-> "none", escaped |-> "none"]
    /\ atExit = [polls |-> 0, saves |-> 0, visited |-> {}]
    /\ saveCalls = [u \in URLs |-> 0]
    /\ outcome = [u \in URLs |-> "none"]
    /\ appearances = 0

(***************************************************************************)
(* The search pipeline: the state of one search request.                   *)
(***************************************************************************)
VARIABLES
    entry,                 \* who asks: "cli" (firescraper.py) or "search_content"
    requested,             \* the search type the caller selected
    objective,             \* the objective text, "" when empty
    s_pc,                  \* the statement the request is at
    search_type,           \* the search_type parameter of search_content
    strategy,              \* the strategy method entered
    calls,                 \* remote calls made, in order
    map_search_parameter,  \* the hint the model returned
    links,                 \* map_website["links"]
    cand,                  \* candidates of the strategy's loop passed so far
    results,               \* the results list of the strategy
    judged,                \* what happened to each candidate passed so far
    selectors,             \* the selectors the model returned
    answer,                \* what the request returned, or that it raised
    failure                \* the step whose exception ended the request

searchVars ==
    <<entry, requested, objective, s_pc, search_type, strategy, calls,
      map_search_parameter, links, cand, results, judged, selectors, answer, failure>>

(***************************************************************************)
(* One call of a function on its own.                                      *)
(***************************************************************************)
VARIABLES
    applied,        \* the function called, "none" before the call
    f_url,          \* is_english_page: url
    f_metadata,     \* is_english_page: metadata
    f_languages,    \* is_english_page: config.languages
    f_out,          \* what the call returned, or that it raised
    f_path,         \* get_safe_filename: url_path
    f_name          \* get_safe_filename: the name returned

callVars == <<applied, f_url, f_metadata, f_languages, f_out, f_path, f_name>>

(***************************************************************************)
(* Two pollers that call save_page on one output directory at a time.      *)
(***************************************************************************)
VARIABLES
    r_pc,           \* where each poller is in its call of save_page
    r_page,         \* the record each poller handles
    r_files,        \* the output directory both write to
    r_ret,          \* what each call returned and why
    r_log           \* the steps taken, in order

raceVars == <<r_pc, r_page, r_files, r_ret, r_log>>

(***************************************************************************)
(* One judge prompt built from the content of a page.                      *)
(***************************************************************************)
VARIABLES
    p_path,         \* the function that builds the prompt, "none" before
    p_content,      \* the content of the page scraped
    p_sent          \* the content put into the prompt

promptVars == <<p_path, p_content, p_sent>>

(***************************************************************************)
(* One call of CrawlConfig.to_api_params.                                  *)
(***************************************************************************)
VARIABLES
    a_config,       \* the fields of the CrawlConfig that the method reads
    a_params        \* the dict returned, as a function of its keys

paramVars == <<a_config, a_params>>

pureVars == <<callVars, raceVars, promptVars, paramVars>>

countVars == <<saved_count, skipped_count, error_count>>
dirVars == <<files, htmls, manifest, manifestWrites>>
itemVars == <<item, idx, ret>>
progressVars == <<last_status, printed>>
netVars == <<submits, submitResult, polls, status>>
runVars == <<script, config>>
recordHist == <<saveCalls, outcome, appearances>>
exitHist == <<exitKind, intr, atExit>>

(***************************************************************************)
(* crawl_and_save: submission and output directory.                        *)
(***************************************************************************)
\* where an exception raised outside the poll loop ends the run:
\* scripts/crawl.py prints "Fatal error" and calls sys.exit(1), crawl.py has
\* no handler
Fatal == IF script = Scripts THEN "exit1" ELSE "crashed"

\* requests.post(...) answers with response.ok
SubmitOk ==
    /\ pc = "submit"
    /\ submits' = submits + 1
    /\ submitResult' = "ok"
    /\ pc' = "mkdir"
    /\ UNCHANGED <<searchVars, pureVars, runVars, dirVars, countVars, visited_urls, itemVars,
                   progressVars, polls, status, recordHist, exitHist>>

\* SubmitNotOk with the failed submission not checked
SubmitNotOk_GoesOn ==
    /\ pc = "submit"
    /\ submits' = submits + 1
    /\ submitResult' = "notok"
    /\ pc' = "mkdir"
    /\ UNCHANGED <<searchVars, pureVars, runVars, dirVars, countVars, visited_urls, itemVars,
                   progressVars, polls, status, recordHist, exitHist>>

\* `if not response.ok: ... return`
SubmitNotOk ==
    /\ pc = "submit"
    /\ submits' = submits + 1
    /\ submitResult' = "notok"
    /\ pc' = "returned"
    /\ UNCHANGED <<searchVars, pureVars, runVars, dirVars, countVars, visited_urls, itemVars,
                   progressVars, polls, status, recordHist, exitHist>>

\* requests.post raises (connection refused), or the body has no "id"
SubmitRaises ==
    /\ pc = "submit"
    /\ submits' = submits + 1
    /\ submitResult' = "raise"
    /\ pc' = Fatal
    /\ UNCHANGED <<searchVars, pureVars, runVars, dirVars, countVars, visited_urls, itemVars,
                   progressVars, polls, status, recordHist, exitHist>>

\* output_dir.mkdir(parents=True, exist_ok=True) and the counters' set-up
Mkdir ==
    /\ pc = "mkdir"
    /\ pc' = "poll"
    /\ saved_count' = 0
    /\ skipped_count' = 0
    /\ error_count' = 0
    /\ visited_urls' = {}
    /\ last_status' = << >>
    /\ UNCHANGED <<searchVars, pureVars, runVars, dirVars, itemVars, printed, netVars, recordHist,
                   exitHist>>

MkdirRaises ==
    /\ pc = "mkdir"
    /\ pc' = Fatal
    /\ UNCHANGED <<searchVars, pureVars, runVars, dirVars, countVars, visited_urls, itemVars,
                   progressVars, netVars, recordHist, exitHist>>

(***************************************************************************)
(* crawl_and_save: the poll loop.                                          *)
(***************************************************************************)
\* leaving the loop of scripts/crawl.py for its `finally` block
LeaveLoop(kind, snapshot) ==
    /\ pc' = "finally"
    /\ exitKind' = kind
    /\ atExit' = snapshot

\* the snapshot taken by a step that makes a poll
AfterPoll == [ExitSnapshot EXCEPT !.polls = @ + 1]

\* an exception other than KeyboardInterrupt raised in the loop body
LoopException(snapshot) ==
    IF script = Scripts
      THEN LeaveLoop("exception", snapshot) /\ UNCHANGED intr
      ELSE /\ pc' = "crashed"
           /\ exitKind' = "exception"
           /\ atExit' = snapshot
           /\ UNCHANGED intr

\* requests.get(...) answers with results.ok
PollOk ==
    /\ pc = "poll"
    /\ polls < MaxPolls
    /\ polls' = polls + 1
    /\ status' = Unread
    /\ idx' = 0
    /\ printed' = FALSE
    /\ pc' = "items"
    /\ UNCHANGED <<searchVars, pureVars, runVars, dirVars, countVars, visited_urls, item, ret,
                   last_status, submits, submitResult, recordHist, exitHist>>

\* PollNotOk with the return outside any try/finally
PollNotOk_ReturnsAtOnce ==
    /\ pc = "poll"
    /\ script = Scripts
    /\ polls < MaxPolls
    /\ polls' = polls + 1
    /\ pc' = "returned"
    /\ exitKind' = "pollfail"
    /\ atExit' = AfterPoll
    /\ UNCHANGED <<searchVars, pureVars, runVars, dirVars, countVars, visited_urls, itemVars,
                   progressVars, submits, submitResult, status, recordHist,
                   intr>>

\* `if not results.ok: ... return` inside the try block
PollNotOk ==
    /\ pc = "poll"
    /\ script = Scripts
    /\ polls < MaxPolls
    /\ polls' = polls + 1
    /\ LeaveLoop("pollfail", AfterPoll)
    /\ UNCHANGED <<searchVars, pureVars, runVars, dirVars, countVars, visited_urls, itemVars,
                   progressVars, submits, submitResult, status, recordHist,
                   intr>>

\* requests.get raises, or results.json() does
PollRaises ==
    /\ pc = "poll"
    /\ polls < MaxPolls
    /\ polls' = polls + 1
    /\ LoopException(AfterPoll)
    /\ UNCHANGED <<searchVars, pureVars, runVars, dirVars, countVars, visited_urls, itemVars,
                   progressVars, submits, submitResult, status, recordHist>>

\* the `for item in status["data"]` loop is past the last record
EndOfData ==
    /\ pc = "items"
    /\ pc' = "progress"
    /\ item' = NoItem
    /\ UNCHANGED <<searchVars, pureVars, runVars, dirVars, countVars, visited_urls, idx, ret,
                   progressVars, netVars, recordHist, exitHist>>

\* SkipIncomplete with the incomplete record counted as skipped
SkipIncomplete_CountsSkipped ==
    /\ pc = "items"
    /\ idx < MaxData
    /\ \E it \in Items :
          /\ ~(it.hasMarkdown /\ it.hasMetadata)
          /\ item' = it
    /\ idx' = idx + 1
    /\ skipped_count' = skipped_count + 1
    /\ UNCHANGED <<saved_count, error_count>>
    /\ UNCHANGED <<searchVars, pureVars, runVars, pc, dirVars, visited_urls, ret,
                   progressVars, netVars, recordHist, exitHist>>

\* the next record lacks "markdown" or "metadata"
SkipIncomplete ==
    /\ pc = "items"
    /\ idx < MaxData
    /\ \E it \in Items :
          /\ ~(it.hasMarkdown /\ it.hasMetadata)
          /\ item' = it
    /\ idx' = idx + 1
    /\ UNCHANGED <<searchVars, pureVars, runVars, pc, dirVars, countVars, visited_urls, ret,
                   progressVars, netVars, recordHist, exitHist>>

\* item["metadata"]["url"] raises KeyError
MissingUrl ==
    /\ pc = "items"
    /\ idx < MaxData
    /\ \E it \in Items :
          /\ it.hasMarkdown /\ it.hasMetadata
          /\ ~it.metadata.hasUrl
          /\ item' = it
    /\ idx' = idx + 1
    /\ LoopException(ExitSnapshot)
    /\ UNCHANGED <<searchVars, pureVars, runVars, dirVars, countVars, visited_urls, ret,
                   progressVars, netVars, recordHist>>

\* AlreadyVisited with the repeated URL counted as skipped
AlreadyVisited_CountsSkipped ==
    /\ pc = "items"
    /\ idx < MaxData
    /\ \E it \in Items :
          /\ it.hasMarkdown /\ it.hasMetadata
          /\ it.metadata.hasUrl
          /\ it.metadata.url \in visited_urls
          /\ item' = it
    /\ idx' = idx + 1
    /\ appearances' = appearances + 1
    /\ skipped_count' = skipped_count + 1
    /\ UNCHANGED <<saved_count, error_count>>
    /\ UNCHANGED <<searchVars, pureVars, runVars, pc, dirVars, visited_urls, ret,
                   progressVars, netVars, saveCalls, outcome, exitHist>>

\* `if url not in visited_urls` is false
AlreadyVisited ==
    /\ pc = "items"
    /\ idx < MaxData
    /\ \E it \in Items :
          /\ it.hasMarkdown /\ it.hasMetadata
          /\ it.metadata.hasUrl
          /\ it.metadata.url \in visited_urls
          /\ item' = it
    /\ idx' = idx + 1
    /\ appearances' = appearances + 1
    /\ UNCHANGED <<searchVars, pureVars, runVars, pc, dirVars, countVars, visited_urls, ret,
                   progressVars, netVars, saveCalls, outcome, exitHist>>

\* `if url not in visited_urls` is true: save_page is about to be called
NewUrl ==
    /\ pc = "items"
    /\ idx < MaxData
    /\ \E it \in Items :
          /\ it.hasMarkdown /\ it.hasMetadata
          /\ it.metadata.hasUrl
          /\ it.metadata.url \notin visited_urls
          /\ item' = it
    /\ idx' = idx + 1
    /\ pc' = "save"
    /\ UNCHANGED <<searchVars, pureVars, runVars, dirVars, countVars, visited_urls, ret,
                   progressVars, netVars, recordHist, exitHist>>

\* crawl.py: `if not results.ok: ... return`, with no manifest written
LegacyPollNotOk ==
    /\ pc = "poll"
    /\ script = Legacy
    /\ polls < MaxPolls
    /\ polls' = polls + 1
    /\ pc' = "returned"
    /\ exitKind' = "pollfail"
    /\ atExit' = AfterPoll
    /\ UNCHANGED <<searchVars, pureVars, runVars, dirVars, countVars, visited_urls, itemVars,
                   progressVars, submits, submitResult, status, recordHist,
                   intr>>

\* the call save_page(output_dir, url, item["markdown"], item["metadata"], config)
SavePage ==
    /\ pc = "save"
    /\ script = Scripts
    /\ \E fault \in Faults :
          LET r == save_page(files, htmls, url, item.markdown, item.metadata,
                             config, fault)
          IN  /\ files' = r.files
              /\ htmls' = r.htmls
              /\ ret' = [r EXCEPT !.files = << >>, !.htmls = {}]
    /\ saveCalls' = [saveCalls EXCEPT ![url] = @ + 1]
    /\ pc' = "count"
    /\ UNCHANGED <<searchVars, pureVars, runVars, manifest, manifestWrites, countVars, visited_urls,
                   item, idx, progressVars, netVars, outcome,
                   appearances, exitHist>>

\* crawl.py: save_page(output_dir, url, item["markdown"], item["metadata"]);
\* an exception it raises leaves crawl_and_save
LegacySavePage ==
    /\ pc = "save"
    /\ script = Legacy
    /\ \E fault \in Faults :
          LET r == legacy_save_page(files, htmls, url, item.markdown,
                                    item.metadata, fault)
          IN  /\ files' = r.files
              /\ htmls' = r.htmls
              /\ ret' = [r EXCEPT !.files = << >>, !.htmls = {}]
              /\ IF r.ret = "raise"
                   THEN /\ pc' = "crashed"
                        /\ exitKind' = "exception"
                        /\ atExit' = [ExitSnapshot EXCEPT !.saves = @ + 1]
                   ELSE /\ pc' = "count"
                        /\ UNCHANGED <<exitKind, atExit>>
    /\ saveCalls' = [saveCalls EXCEPT ![url] = @ + 1]
    /\ UNCHANGED <<searchVars, pureVars, runVars, manifest, manifestWrites, countVars, visited_urls,
                   item, idx, progressVars, netVars, outcome,
                   appearances, intr>>

\* Count with an exception of save_page counted twice
Count_RaiseAlsoSkipped ==
    /\ pc = "count"
    /\ saved_count' = IF ret.ret = "True" THEN saved_count + 1 ELSE saved_count
    /\ skipped_count' =
          IF ret.ret \in {"False", "raise"} THEN skipped_count + 1
          ELSE skipped_count
    /\ error_count' = IF ret.ret = "raise" THEN error_count + 1 ELSE error_count
    /\ outcome' = [outcome EXCEPT ![url] =
                      CASE ret.ret = "True" -> "saved"
                        [] ret.ret = "False" -> "skipped"
                        [] OTHER -> "raised"]
    /\ appearances' = appearances + 1
    /\ pc' = "mark"
    /\ UNCHANGED <<searchVars, pureVars, runVars, dirVars, visited_urls, itemVars, progressVars,
                   netVars, saveCalls, exitHist>>

\* saved_count += 1, skipped_count += 1 or (except Exception) error_count += 1
Count ==
    /\ pc = "count"
    /\ saved_count' = IF ret.ret = "True" THEN saved_count + 1 ELSE saved_count
    /\ skipped_count' =
          IF ret.ret = "False" THEN skipped_count + 1 ELSE skipped_count
    /\ error_count' = IF ret.ret = "raise" THEN error_count + 1 ELSE error_count
    /\ outcome' = [outcome EXCEPT ![url] =
                      CASE ret.ret = "True" -> "saved"
                        [] ret.ret = "False" -> "skipped"
                        [] OTHER -> "raised"]
    /\ appearances' = appearances + 1
    /\ pc' = "mark"
    /\ UNCHANGED <<searchVars, pureVars, runVars, dirVars, visited_urls, itemVars, progressVars,
                   netVars, saveCalls, exitHist>>

\* MarkVisited with the set made anew from the URL
MarkVisited_Replaces ==
    /\ pc = "mark"
    /\ visited_urls' = {url}
    /\ item' = NoItem
    /\ ret' = NoRet
    /\ pc' = "items"
    /\ UNCHANGED <<searchVars, pureVars, runVars, dirVars, countVars, idx, progressVars,
                   netVars, saveCalls, outcome, appearances, exitHist>>

\* MarkVisited with the URL added only when its page was saved
MarkVisited_OnlySaved ==
    /\ pc = "mark"
    /\ visited_urls' = IF ret.ret = "True" THEN visited_urls \cup {url}
                       ELSE visited_urls
    /\ item' = NoItem
    /\ ret' = NoRet
    /\ pc' = "items"
    /\ UNCHANGED <<searchVars, pureVars, runVars, dirVars, countVars, idx, progressVars,
                   netVars, saveCalls, outcome, appearances, exitHist>>

\* visited_urls.add(url)
MarkVisited ==
    /\ pc = "mark"
    /\ visited_urls' = visited_urls \cup {url}
    /\ item' = NoItem
    /\ ret' = NoRet
    /\ pc' = "items"
    /\ UNCHANGED <<searchVars, pureVars, runVars, dirVars, countVars, idx, progressVars,
                   netVars, saveCalls, outcome, appearances, exitHist>>

\* ProgressPrinted with the lines printed after every poll
ProgressPrinted_EveryPoll(current_status) ==
    script = Scripts => current_status[2] > 0

\* whether the progress lines are printed for current_status
ProgressPrinted(current_status) ==
    /\ current_status # last_status
    /\ script = Scripts => current_status[2] > 0

\* Progress without the break on status completed
Progress_GoesOn ==
    /\ pc = "progress"
    /\ \E st \in {"running", "completed"}, current_status \in Pairs :
          /\ status' = [status |-> st, pair |-> current_status]
          /\ printed' = ProgressPrinted(current_status)
          /\ last_status' = current_status
          /\ pc' = "sleep"
          /\ UNCHANGED <<exitKind, atExit>>
    /\ UNCHANGED <<searchVars, pureVars, runVars, dirVars, countVars, visited_urls, itemVars,
                   submits, submitResult, polls, recordHist, intr>>

\* the progress report, then `if status.get("status") == "completed": break`;
\* "completed", "total" and "status" of the response are drawn here, where
\* the loop first reads them
Progress ==
    /\ pc = "progress"
    /\ \E st \in {"running", "completed"}, current_status \in Pairs :
          /\ status' = [status |-> st, pair |-> current_status]
          /\ printed' = ProgressPrinted(current_status)
          /\ last_status' = current_status
          /\ IF st = "completed"
               THEN LeaveLoop("completed", ExitSnapshot)
               ELSE pc' = "sleep" /\ UNCHANGED <<exitKind, atExit>>
    /\ UNCHANGED <<searchVars, pureVars, runVars, dirVars, countVars, visited_urls, itemVars,
                   submits, submitResult, polls, recordHist, intr>>

\* Sleep with a cap on the time the loop may take
Sleep_TimesOut ==
    /\ pc = "sleep"
    /\ pc' = "finally"
    /\ exitKind' = "timeout"
    /\ UNCHANGED <<searchVars, pureVars, runVars, dirVars, countVars,
                   visited_urls, itemVars, progressVars, netVars, recordHist,
                   intr, atExit>>

\* time.sleep(config.check_interval)
Sleep ==
    /\ pc = "sleep"
    /\ pc' = "poll"
    /\ UNCHANGED <<searchVars, pureVars, runVars, dirVars, countVars, visited_urls, itemVars,
                   progressVars, netVars, recordHist, exitHist>>

\* Interrupt with no `except KeyboardInterrupt` and no finally block
Interrupt_Propagates ==
    /\ pc \in LoopPcs
    /\ script = Scripts
    /\ pc' = "interrupted_out"
    /\ exitKind' = "interrupt"
    /\ atExit' = ExitSnapshot
    /\ intr' = [intr EXCEPT !.caught = pc]
    /\ UNCHANGED <<searchVars, pureVars, runVars, dirVars, countVars, visited_urls, itemVars,
                   progressVars, netVars, recordHist>>

\* KeyboardInterrupt inside the try block of the loop: `except
\* KeyboardInterrupt` takes it, the finally block follows
Interrupt ==
    /\ pc \in LoopPcs
    /\ script = Scripts
    /\ LeaveLoop("interrupt", ExitSnapshot)
    /\ intr' = [intr EXCEPT !.caught = pc]
    /\ UNCHANGED <<searchVars, pureVars, runVars, dirVars, countVars, visited_urls, itemVars,
                   progressVars, netVars, recordHist>>

\* InterruptEscapes with the handler of the loop reaching back over the
\* submission and the creation of the output directory
InterruptEscapes_AbsorbedBeforeLoop ==
    /\ \/ pc \in {"submit", "mkdir", "finally", "summary"}
       \/ script = Legacy /\ pc \in LoopPcs
    /\ IF script = Scripts /\ pc \in {"submit", "mkdir"}
         THEN /\ LeaveLoop("interrupt", ExitSnapshot)
              /\ intr' = [intr EXCEPT !.caught = pc]
         ELSE /\ pc' = "interrupted_out"
              /\ intr' = [intr EXCEPT !.escaped = pc]
              /\ UNCHANGED <<exitKind, atExit>>
    /\ UNCHANGED <<searchVars, pureVars, runVars, dirVars, countVars, visited_urls, itemVars,
                   progressVars, netVars, recordHist>>

\* KeyboardInterrupt where no handler takes it: before the loop, in the
\* finally block, and anywhere in crawl.py
InterruptEscapes ==
    /\ \/ pc \in {"submit", "mkdir", "finally", "summary"}
       \/ script = Legacy /\ pc \in LoopPcs
    /\ pc' = "interrupted_out"
    /\ intr' = [intr EXCEPT !.escaped = pc]
    /\ UNCHANGED <<searchVars, pureVars, runVars, dirVars, countVars, visited_urls, itemVars,
                   progressVars, netVars, recordHist, exitKind, atExit>>

(***************************************************************************)
(* crawl_and_save: the end of the run.                                     *)
(***************************************************************************)
\* save_visited_urls(output_dir, visited_urls)
Finally ==
    /\ pc = "finally"
    /\ manifest' = save_visited_urls(visited_urls)
    /\ manifestWrites' = manifestWrites + 1
    /\ pc' = "summary"
    /\ UNCHANGED <<searchVars, pureVars, runVars, files, htmls, countVars, visited_urls, itemVars,
                   progressVars, netVars, recordHist, exitHist>>

\* the summary is printed; an exception of the loop body then reaches
\* `except Exception`, which calls sys.exit(1)
Summary ==
    /\ pc = "summary"
    /\ pc' = IF exitKind = "exception" THEN "exit1" ELSE "returned"
    /\ UNCHANGED <<searchVars, pureVars, runVars, dirVars, countVars, visited_urls, itemVars,
                   progressVars, netVars, recordHist, exitHist>>

CrawlNext ==
    \/ SubmitOk \/ SubmitNotOk \/ SubmitRaises
    \/ Mkdir \/ MkdirRaises
    \/ PollOk \/ PollNotOk \/ LegacyPollNotOk \/ PollRaises
    \/ EndOfData \/ SkipIncomplete \/ MissingUrl \/ AlreadyVisited \/ NewUrl
    \/ SavePage \/ LegacySavePage \/ Count \/ MarkVisited
    \/ Progress \/ Sleep
    \/ Interrupt \/ InterruptEscapes
    \/ Finally \/ Summary

vars == <<crawlVars, searchVars, pureVars>>

(***************************************************************************)
(* The search pipeline: requests, remote calls and answers.                *)
(***************************************************************************)
\* most links a map call answers with
MaxLinks == 6

\* SearchType
SearchTypes == {"quick", "deep", "selective"}

\* ways a search is asked for: the `search` command of firescraper.py,
\* ClaudeScraper.process(Mode.SEARCH, ...), ClaudeScraper.search_content(...)
Entries == {"cli", "process", "search_content"}

\* texts the model answers the hint prompt with
Hints == {"h1", "h2"}
NoHint == "none"

\* selector mappings the model answers the selector prompt with
SelectorSets == {"s1", "s2"}
NoSelectors == "none"

\* map_website["links"] with n links: link k is the k-th candidate
LinksOf(n) == [k \in 1..n |-> k]

\* what a map call does: it raises, or answers with 0..MaxLinks links
MapRaised == 0 - 1
MapAnswers == {MapRaised} \cup (0..MaxLinks)

\* s[:n]
Take(s, n) == SubSeq(s, 1, IF Len(s) < n THEN Len(s) ELSE n)

\* a call of a remote facade: self.client.messages.create ("model"),
\* self.app.map_url ("map"), self.app.scrape_url ("scrape"),
\* self.app.extract_content ("extract"); target 0 is the site URL, target k
\* the k-th link; search is the `search` parameter of a map call
Call(by, op, target, search) ==
    [by |-> by, op |-> op, target |-> target, search |-> search]

QuickName == "_quick_search"
DeepName == "_deep_search"
SelectiveName == "_selective_search"

\* the strategy method search_content dispatches a search type to
StrategyOf(t) ==
    CASE t = "quick" -> QuickName
      [] t = "deep" -> DeepName
      [] t = "selective" -> SelectiveName

Pending == [kind |-> "pending"]
ReturnsNone == [kind |-> "None"]
Raised(e) == [kind |-> "raise", error |-> e]
Exit1 == [kind |-> "exit1"]

\* the request before main, process or search_content is entered
SearchStart ==
    /\ s_pc = "start"
    /\ search_type = "unset"
    /\ strategy = "none"
    /\ calls = << >>
    /\ map_search_parameter = NoHint
    /\ links = << >>
    /\ cand = 0
    /\ results = << >>
    /\ judged = << >>
    /\ selectors = NoSelectors
    /\ answer = Pending
    /\ failure = "none"

\* no search is asked for
SearchIdle ==
    /\ entry = "none"
    /\ requested = "none"
    /\ objective = ""
    /\ SearchStart

strategyVars ==
    <<map_search_parameter, links, cand, results, judged, selectors>>
requestVars == <<entry, requested, objective>>

Return(value, raised) ==
    /\ answer' = value
    /\ failure' = raised
    /\ s_pc' = "done"

\* firescraper.py main, command "search": search_type is computed from
\* args.type and process is called with the mode, the url and the objective
CliMain ==
    /\ s_pc = "start"
    /\ entry = "cli"
    /\ s_pc' = "process"
    /\ UNCHANGED <<crawlVars, pureVars, requestVars, search_type, strategy, calls,
                   strategyVars, answer, failure>>

\* a caller of process(Mode.SEARCH, url, objective=...): process has no
\* parameter for the search type
CallProcess ==
    /\ s_pc = "start"
    /\ entry = "process"
    /\ s_pc' = "process"
    /\ UNCHANGED <<crawlVars, pureVars, requestVars, search_type, strategy, calls,
                   strategyVars, answer, failure>>

\* process, Mode.SEARCH, `if not objective: raise ValueError`; main catches
\* the exception and calls sys.exit(1)
ProcessNoObjective ==
    /\ s_pc = "process"
    /\ objective = ""
    /\ Return(IF entry = "cli" THEN Exit1 ELSE Raised("ValueError"),
              "objective")
    /\ UNCHANGED <<crawlVars, pureVars, requestVars, search_type, strategy, calls,
                   strategyVars>>

\* process, Mode.SEARCH: `return self.search_content(objective, url)`, so
\* search_type takes its default, SearchType.QUICK
Process ==
    /\ s_pc = "process"
    /\ objective # ""
    /\ search_type' = "quick"
    /\ s_pc' = "search_content"
    /\ UNCHANGED <<crawlVars, pureVars, requestVars, strategy, calls, strategyVars,
                   answer, failure>>

\* a caller of search_content(objective, url, search_type)
CallSearchContent ==
    /\ s_pc = "start"
    /\ entry = "search_content"
    /\ search_type' = requested
    /\ s_pc' = "search_content"
    /\ UNCHANGED <<crawlVars, pureVars, requestVars, strategy, calls, strategyVars,
                   answer, failure>>

\* search_content: the if/elif chain over search_type
SearchContent ==
    /\ s_pc = "search_content"
    /\ strategy' = StrategyOf(search_type)
    /\ s_pc' = CASE search_type = "quick" -> "quick_hint"
                 [] search_type = "deep" -> "deep_map"
                 [] search_type = "selective" -> "selective_map"
    /\ UNCHANGED <<crawlVars, pureVars, requestVars, search_type, calls, strategyVars,
                   answer, failure>>

(***************************************************************************)
(* _quick_search.                                                          *)
(***************************************************************************)
\* QuickHint with the exception of the model call let through to the caller
QuickHint_Propagates ==
    /\ s_pc = "quick_hint"
    /\ calls' = Append(calls, Call(QuickName, "model", 0, NoHint))
    /\ \E o \in Hints \cup {"raises"} :
          IF o = "raises"
            THEN Return(Raised("APIError"), "model") /\ UNCHANGED map_search_parameter
            ELSE /\ map_search_parameter' = o
                 /\ s_pc' = "quick_map"
                 /\ UNCHANGED <<answer, failure>>
    /\ UNCHANGED <<crawlVars, pureVars, requestVars, search_type, strategy, links,
                   cand, results, judged, selectors>>

\* the model call for the search parameter; an exception ends in
\* `return None`
QuickHint ==
    /\ s_pc = "quick_hint"
    /\ calls' = Append(calls, Call(QuickName, "model", 0, NoHint))
    /\ \E o \in Hints \cup {"raises"} :
          IF o = "raises"
            THEN Return(ReturnsNone, "model") /\ UNCHANGED map_search_parameter
            ELSE /\ map_search_parameter' = o
                 /\ s_pc' = "quick_map"
                 /\ UNCHANGED <<answer, failure>>
    /\ UNCHANGED <<crawlVars, pureVars, requestVars, search_type, strategy, links,
                   cand, results, judged, selectors>>

\* QuickMap with an empty list of links raised to the caller
QuickMap_EmptyIsError ==
    /\ s_pc = "quick_map"
    /\ calls' = Append(calls, Call(QuickName, "map", 0, map_search_parameter))
    /\ \E n \in MapAnswers :
          IF n = MapRaised
            THEN Return(ReturnsNone, "map") /\ UNCHANGED links
          ELSE IF n = 0
            THEN Return(Raised("IndexError"), "none") /\ links' = LinksOf(0)
          ELSE /\ links' = LinksOf(n)
               /\ s_pc' = "quick_scrape"
               /\ UNCHANGED <<answer, failure>>
    /\ UNCHANGED <<crawlVars, pureVars, requestVars, search_type, strategy,
                   map_search_parameter, cand, results, judged, selectors>>

\* map_url(url, params={"search": map_search_parameter}) and
\* `if not map_website["links"]: return None`
QuickMap ==
    /\ s_pc = "quick_map"
    /\ calls' = Append(calls, Call(QuickName, "map", 0, map_search_parameter))
    /\ \E n \in MapAnswers :
          IF n = MapRaised
            THEN Return(ReturnsNone, "map") /\ UNCHANGED links
          ELSE IF n = 0
            THEN Return(ReturnsNone, "none") /\ links' = LinksOf(0)
          ELSE /\ links' = LinksOf(n)
               /\ s_pc' = "quick_scrape"
               /\ UNCHANGED <<answer, failure>>
    /\ UNCHANGED <<crawlVars, pureVars, requestVars, search_type, strategy,
                   map_search_parameter, cand, results, judged, selectors>>

\* QuickScrape with the last link scraped instead of the first
QuickScrape_LastLink ==
    /\ s_pc = "quick_scrape"
    /\ calls' = Append(calls, Call(QuickName, "scrape", links[Len(links)], NoHint))
    /\ \E raises \in BOOLEAN :
          Return(IF raises THEN ReturnsNone
                 ELSE [kind |-> "result",
                       source_url |-> links[1],
                       relevant_info |-> links[1],
                       search_type |-> "quick",
                       search_parameter |-> map_search_parameter],
                 IF raises THEN "scrape" ELSE "none")
    /\ UNCHANGED <<crawlVars, pureVars, requestVars, search_type, strategy,
                   strategyVars>>

\* scrape_url(map_website["links"][0], ...) and the returned dict
QuickScrape ==
    /\ s_pc = "quick_scrape"
    /\ calls' = Append(calls, Call(QuickName, "scrape", links[1], NoHint))
    /\ \E raises \in BOOLEAN :
          Return(IF raises THEN ReturnsNone
                 ELSE [kind |-> "result",
                       source_url |-> links[1],
                       relevant_info |-> links[1],
                       search_type |-> "quick",
                       search_parameter |-> map_search_parameter],
                 IF raises THEN "scrape" ELSE "none")
    /\ UNCHANGED <<crawlVars, pureVars, requestVars, search_type, strategy,
                   strategyVars>>

(***************************************************************************)
(* _deep_search.                                                           *)
(***************************************************************************)
\* candidates analysed: map_website["links"][:5]
TopDeep == 5

\* the JSON object the model answers the analysis prompt with
Analysis(hasScore, score, hasPoints, hasMatches, matches) ==
    [has_relevance_score |-> hasScore, relevance_score |-> score,
     has_key_points |-> hasPoints,
     has_matches_objective |-> hasMatches, matches_objective |-> matches]

Analyses ==
    { Analysis(TRUE, 10, TRUE, TRUE, TRUE),
      Analysis(TRUE, 40, TRUE, TRUE, TRUE),
      Analysis(TRUE, 90, TRUE, TRUE, TRUE),
      Analysis(TRUE, 40, TRUE, TRUE, FALSE),
      Analysis(TRUE, 40, TRUE, FALSE, FALSE),
      Analysis(FALSE, 0, TRUE, TRUE, TRUE),
      Analysis(TRUE, 40, FALSE, TRUE, TRUE) }

\* what happens to one candidate: scrape_url raises, the model call raises,
\* the completion is not JSON, or the completion is an analysis
Judged(kind, analysis) == [kind |-> kind, analysis |-> analysis]
NoAnalysis == Analysis(FALSE, 0, FALSE, FALSE, FALSE)
DeepOutcomes ==
    {Judged(k, NoAnalysis) : k \in {"scrape_raises", "model_raises", "not_json"}}
    \cup {Judged("analysis", a) : a \in Analyses}

\* an entry of results
DeepEntry(target_url, analysis) ==
    [url |-> target_url, content |-> target_url, analysis |-> analysis]

\* InsertByScore with an entry put in front of the entries of its own score
InsertByScore_TiesReversed(rs, r) ==
    LET p == Cardinality({i \in 1..Len(rs) :
                 rs[i].analysis.relevance_score > r.analysis.relevance_score})
    IN  SubSeq(rs, 1, p) \o <<r>> \o SubSeq(rs, p + 1, Len(rs))

\* list.sort(key=relevance_score, reverse=True) is stable: an entry goes
\* behind every entry of a score not less than its own
InsertByScore(rs, r) ==
    LET p == Cardinality({i \in 1..Len(rs) :
                 rs[i].analysis.relevance_score >= r.analysis.relevance_score})
    IN  SubSeq(rs, 1, p) \o <<r>> \o SubSeq(rs, p + 1, Len(rs))

RECURSIVE SortByScore(_)
SortByScore(rs) ==
    IF rs = << >> THEN << >>
    ELSE InsertByScore(SortByScore(SubSeq(rs, 1, Len(rs) - 1)), rs[Len(rs)])

\* the key function raises KeyError for an entry without relevance_score
SortRaises(rs) ==
    \E i \in 1..Len(rs) : ~rs[i].analysis.has_relevance_score

\* map_url(url); an exception ends in `return None`
DeepMap ==
    /\ s_pc = "deep_map"
    /\ calls' = Append(calls, Call(DeepName, "map", 0, NoHint))
    /\ \E n \in MapAnswers :
          IF n = MapRaised
            THEN Return(ReturnsNone, "map") /\ UNCHANGED links
            ELSE /\ links' = LinksOf(n)
                 /\ s_pc' = "deep_loop"
                 /\ UNCHANGED <<answer, failure>>
    /\ UNCHANGED <<crawlVars, pureVars, requestVars, search_type, strategy,
                   map_search_parameter, cand, results, judged, selectors>>

\* DeepCandidate with the loop left at the first candidate that fails
DeepCandidate_StopsAtFailure ==
    /\ s_pc = "deep_loop"
    /\ cand < Len(Take(links, TopDeep))
    /\ LET target_url == links[cand + 1]
           scrape == Call(DeepName, "scrape", target_url, NoHint)
           judge == Call(DeepName, "model", target_url, NoHint)
       IN  \E o \in DeepOutcomes :
              /\ calls' = IF o.kind = "scrape_raises"
                            THEN Append(calls, scrape)
                            ELSE calls \o <<scrape, judge>>
              /\ results' =
                    IF /\ o.kind = "analysis"
                       /\ o.analysis.has_matches_objective
                       /\ o.analysis.matches_objective
                      THEN Append(results, DeepEntry(target_url, o.analysis))
                      ELSE results
              /\ judged' = Append(judged, o)
              /\ cand' = IF o.kind = "analysis" THEN cand + 1
                         ELSE Len(Take(links, TopDeep))
    /\ UNCHANGED <<crawlVars, pureVars, requestVars, search_type, strategy, s_pc,
                   map_search_parameter, links, selectors, answer, failure>>

\* one round of `for target_url in map_website["links"][:5]`: scrape, model
\* call, json.loads, `if analysis["matches_objective"]`; an exception is
\* printed and the loop goes on
DeepCandidate ==
    /\ s_pc = "deep_loop"
    /\ cand < Len(Take(links, TopDeep))
    /\ LET target_url == links[cand + 1]
           scrape == Call(DeepName, "scrape", target_url, NoHint)
           judge == Call(DeepName, "model", target_url, NoHint)
       IN  \E o \in DeepOutcomes :
              /\ calls' = IF o.kind = "scrape_raises"
                            THEN Append(calls, scrape)
                            ELSE calls \o <<scrape, judge>>
              /\ results' =
                    IF /\ o.kind = "analysis"
                       /\ o.analysis.has_matches_objective
                       /\ o.analysis.matches_objective
                      THEN Append(results, DeepEntry(target_url, o.analysis))
                      ELSE results
              /\ judged' = Append(judged, o)
    /\ cand' = cand + 1
    /\ UNCHANGED <<crawlVars, pureVars, requestVars, search_type, strategy, s_pc,
                   map_search_parameter, links, selectors, answer, failure>>

\* DeepFinish without `if results:`, the dict returned for an empty list too
DeepFinish_EmptyResult ==
    /\ s_pc = "deep_loop"
    /\ cand = Len(Take(links, TopDeep))
    /\ Return(IF SortRaises(results)
                THEN ReturnsNone
                ELSE [kind |-> "result",
                      search_type |-> "deep",
                      results |-> SortByScore(results),
                      total_analyzed |-> Len(Take(links, TopDeep))],
              IF SortRaises(results) THEN "sort" ELSE "none")
    /\ results' = IF ~SortRaises(results)
                    THEN SortByScore(results) ELSE results
    /\ UNCHANGED <<crawlVars, pureVars, requestVars, search_type, strategy, calls,
                   map_search_parameter, links, cand, judged, selectors>>

\* after the loop: `if results:` sort and return the dict, else None; a
\* KeyError of the sort ends in the `return None` of the outer handler
DeepFinish ==
    /\ s_pc = "deep_loop"
    /\ cand = Len(Take(links, TopDeep))
    /\ Return(IF results = << >> \/ SortRaises(results)
                THEN ReturnsNone
                ELSE [kind |-> "result",
                      search_type |-> "deep",
                      results |-> SortByScore(results),
                      total_analyzed |-> Len(Take(links, TopDeep))],
              IF results # << >> /\ SortRaises(results) THEN "sort" ELSE "none")
    /\ results' = IF results # << >> /\ ~SortRaises(results)
                    THEN SortByScore(results) ELSE results
    /\ UNCHANGED <<crawlVars, pureVars, requestVars, search_type, strategy, calls,
                   map_search_parameter, links, cand, judged, selectors>>

(***************************************************************************)
(* _selective_search.                                                      *)
(***************************************************************************)
\* candidates extracted from: map_website["links"][:3]
TopSelective == 3

\* what extract_content_with_selectors comes back with: the extracted
\* content, or None for an empty result and for an exception, which it
\* catches
ExtractOutcomes == {"extracted", "empty", "raises"}

\* map_url(url); an exception ends in `return None`
SelectiveMap ==
    /\ s_pc = "selective_map"
    /\ calls' = Append(calls, Call(SelectiveName, "map", 0, NoHint))
    /\ \E n \in MapAnswers :
          IF n = MapRaised
            THEN Return(ReturnsNone, "map") /\ UNCHANGED links
            ELSE /\ links' = LinksOf(n)
                 /\ s_pc' = "selective_selectors"
                 /\ UNCHANGED <<answer, failure>>
    /\ UNCHANGED <<crawlVars, pureVars, requestVars, search_type, strategy,
                   map_search_parameter, cand, results, judged, selectors>>

\* SelectiveSelectors with a failed derivation not ending the strategy
SelectiveSelectors_GoesOn ==
    /\ s_pc = "selective_selectors"
    /\ calls' = Append(calls, Call(SelectiveName, "model", 0, NoHint))
    /\ \E o \in SelectorSets \cup {"raises", "not_json"} :
          IF o \in SelectorSets
            THEN /\ selectors' = o
                 /\ s_pc' = "selective_loop"
                 /\ UNCHANGED <<answer, failure>>
            ELSE /\ failure' = IF o = "raises" THEN "model" ELSE "json"
                 /\ s_pc' = "selective_loop"
                 /\ UNCHANGED <<answer, selectors>>
    /\ UNCHANGED <<crawlVars, pureVars, requestVars, search_type, strategy,
                   map_search_parameter, links, cand, results, judged>>

\* the model call for the selectors and json.loads of the completion; an
\* exception of either ends in `return None`
SelectiveSelectors ==
    /\ s_pc = "selective_selectors"
    /\ calls' = Append(calls, Call(SelectiveName, "model", 0, NoHint))
    /\ \E o \in SelectorSets \cup {"raises", "not_json"} :
          IF o \in SelectorSets
            THEN /\ selectors' = o
                 /\ s_pc' = "selective_loop"
                 /\ UNCHANGED <<answer, failure>>
            ELSE Return(ReturnsNone, IF o = "raises" THEN "model" ELSE "json")
                 /\ UNCHANGED selectors
    /\ UNCHANGED <<crawlVars, pureVars, requestVars, search_type, strategy,
                   map_search_parameter, links, cand, results, judged>>

\* SelectiveCandidate with the loop left at the first extraction that fails
SelectiveCandidate_StopsAtFailure ==
    /\ s_pc = "selective_loop"
    /\ cand < Len(Take(links, TopSelective))
    /\ LET target_url == links[cand + 1]
       IN  /\ calls' = Append(calls,
                         Call(SelectiveName, "extract", target_url, NoHint))
           /\ \E o \in ExtractOutcomes :
                 /\ results' =
                       IF o = "extracted"
                         THEN Append(results, [url |-> target_url,
                                               extracted_content |-> target_url])
                         ELSE results
                 /\ judged' = Append(judged, Judged(o, NoAnalysis))
                 /\ cand' = IF o = "raises" THEN Len(Take(links, TopSelective))
                            ELSE cand + 1
    /\ UNCHANGED <<crawlVars, pureVars, requestVars, search_type, strategy, s_pc,
                   map_search_parameter, links, selectors, answer, failure>>

\* one round of `for target_url in map_website["links"][:3]`
SelectiveCandidate ==
    /\ s_pc = "selective_loop"
    /\ cand < Len(Take(links, TopSelective))
    /\ LET target_url == links[cand + 1]
       IN  /\ calls' = Append(calls,
                         Call(SelectiveName, "extract", target_url, NoHint))
           /\ \E o \in ExtractOutcomes :
                 /\ results' =
                       IF o = "extracted"
                         THEN Append(results, [url |-> target_url,
                                               extracted_content |-> target_url])
                         ELSE results
                 /\ judged' = Append(judged, Judged(o, NoAnalysis))
    /\ cand' = cand + 1
    /\ UNCHANGED <<crawlVars, pureVars, requestVars, search_type, strategy, s_pc,
                   map_search_parameter, links, selectors, answer, failure>>

\* after the loop: `if results:` return the dict, else None
SelectiveFinish ==
    /\ s_pc = "selective_loop"
    /\ cand = Len(Take(links, TopSelective))
    /\ Return(IF results = << >>
                THEN ReturnsNone
                ELSE [kind |-> "result",
                      search_type |-> "selective",
                      selectors_used |-> selectors,
                      results |-> results],
              "none")
    /\ UNCHANGED <<crawlVars, pureVars, requestVars, search_type, strategy, calls,
                   strategyVars>>

(***************************************************************************)
(* find_objective_in_top_pages of claude_firecrawl.py: the pages of the    *)
(* first two links are scraped, then judged one after the other until one  *)
(* completion parses as JSON.                                              *)
(***************************************************************************)
TopPagesName == "find_objective_in_top_pages"

\* top_links = map_website[:2]
TopPages == 2

\* the text the prompt asks for when the objective is not met
Sentinel == "Objective not met"

\* completions of the check prompt: the sentinel, texts that are not JSON,
\* JSON objects, and the JSON text null
Completions ==
    {Sentinel, "Objective not met.", "Sorry, no", "{\"plan\": 1}",
     "{\"plan\": 2}", "null"}

\* json.loads(text): the value, or JSONDecodeError
JsonLoads(text) ==
    CASE text = "{\"plan\": 1}" -> [ok |-> TRUE, value |-> [kind |-> "dict", plan |-> 1]]
      [] text = "{\"plan\": 2}" -> [ok |-> TRUE, value |-> [kind |-> "dict", plan |-> 2]]
      [] text = "null" -> [ok |-> TRUE, value |-> ReturnsNone]
      [] OTHER -> [ok |-> FALSE, value |-> ReturnsNone]

\* what the model call for one page comes to: it raises, or a completion
ModelRaises == "raises"
TopJudged(target, completion) == [target |-> target, completion |-> completion]

otherSearchVars ==
    <<requestVars, search_type, strategy, map_search_parameter, links,
      selectors>>

\* one round of `for url in top_links`: scrape_url and result["markdown"];
\* an exception is printed and the loop goes on
TopScrape ==
    /\ s_pc = "top_scrape"
    /\ cand < Len(Take(links, TopPages))
    /\ LET target_url == links[cand + 1]
       IN  /\ calls' = Append(calls,
                         Call(TopPagesName, "scrape", target_url, NoHint))
           /\ \E ok \in BOOLEAN :
                 results' = IF ok
                              THEN Append(results, [url |-> target_url,
                                                    markdown |-> target_url])
                              ELSE results
    /\ cand' = cand + 1
    /\ UNCHANGED <<crawlVars, pureVars, otherSearchVars, s_pc, judged, answer,
                   failure>>

\* after the scraping loop: `if not all_results: return None`
TopScraped ==
    /\ s_pc = "top_scrape"
    /\ cand = Len(Take(links, TopPages))
    /\ IF results = << >>
         THEN Return(ReturnsNone, "scrape") /\ UNCHANGED cand
         ELSE /\ s_pc' = "top_judge"
              /\ cand' = 0
              /\ UNCHANGED <<answer, failure>>
    /\ UNCHANGED <<crawlVars, pureVars, otherSearchVars, calls, results,
                   judged>>

\* TopJudge with a completion that is not JSON ending the call
TopJudge_ParseFailureFatal ==
    /\ s_pc = "top_judge"
    /\ cand < Len(results)
    /\ LET target_url == results[cand + 1].url
       IN  /\ calls' = Append(calls,
                         Call(TopPagesName, "model", target_url, NoHint))
           /\ \E c \in Completions \cup {ModelRaises} :
                 /\ judged' = Append(judged, TopJudged(target_url, c))
                 /\ IF c = ModelRaises
                      THEN Return(ReturnsNone, "model") /\ UNCHANGED cand
                    ELSE IF c # Sentinel /\ JsonLoads(c).ok
                      THEN Return(JsonLoads(c).value, "none")
                           /\ UNCHANGED cand
                    ELSE IF c # Sentinel
                      THEN Return(ReturnsNone, "json") /\ UNCHANGED cand
                    ELSE /\ cand' = cand + 1
                         /\ UNCHANGED <<s_pc, answer, failure>>
    /\ UNCHANGED <<crawlVars, pureVars, otherSearchVars, results>>

\* one round of `for scrape_result in batch_scrape_result["data"]`: the
\* model call, `if result != "Objective not met"`, `return json.loads(result)`
\* with JSONDecodeError caught; an exception of the model call ends in the
\* `return None` of the outer handler
TopJudge ==
    /\ s_pc = "top_judge"
    /\ cand < Len(results)
    /\ LET target_url == results[cand + 1].url
       IN  /\ calls' = Append(calls,
                         Call(TopPagesName, "model", target_url, NoHint))
           /\ \E c \in Completions \cup {ModelRaises} :
                 /\ judged' = Append(judged, TopJudged(target_url, c))
                 /\ IF c = ModelRaises
                      THEN Return(ReturnsNone, "model") /\ UNCHANGED cand
                    ELSE IF c # Sentinel /\ JsonLoads(c).ok
                      THEN Return(JsonLoads(c).value, "none")
                           /\ UNCHANGED cand
                    ELSE /\ cand' = cand + 1
                         /\ UNCHANGED <<s_pc, answer, failure>>
    /\ UNCHANGED <<crawlVars, pureVars, otherSearchVars, results>>

\* after the judging loop: `return None`
TopFinish ==
    /\ s_pc = "top_judge"
    /\ cand = Len(results)
    /\ Return(ReturnsNone, "none")
    /\ UNCHANGED <<crawlVars, pureVars, otherSearchVars, calls, cand, results,
                   judged>>

(***************************************************************************)
(* is_english_page applied to one page.                                    *)
(***************************************************************************)
\* the metadata argument: None or a dict (present), with or without the key
\* "language" (hasLanguage), whose value is a str, possibly empty, or not a
\* str (languageIsStr)
FilterMetadata ==
    { [present |-> FALSE, hasLanguage |-> FALSE, language |-> << >>,
       languageIsStr |-> TRUE] }
    \cup { [present |-> TRUE, hasLanguage |-> FALSE, language |-> << >>,
            languageIsStr |-> TRUE] }
    \cup { [present |-> TRUE, hasLanguage |-> TRUE, language |-> l,
            languageIsStr |-> TRUE] : l \in {<< >>, En, EnUS, Es} }
    \cup { [present |-> TRUE, hasLanguage |-> TRUE, language |-> Es,
            languageIsStr |-> FALSE] }

\* config.languages
LanguageSets == SUBSET {En, Es}

NoOut == "unset"

\* no function is called on its own
CallIdle ==
    /\ applied = "none"
    /\ f_url = "U1"
    /\ f_metadata = CHOOSE m \in FilterMetadata : ~m.present
    /\ f_languages = {}
    /\ f_out = NoOut
    /\ f_path = << >>
    /\ f_name = << >>

\* the value of a call that returns a bool or raises
Outcome(raises, value) ==
    IF raises THEN "raise" ELSE IF value THEN "True" ELSE "False"

\* is_english_page(url, metadata, config) of scripts/crawl.py
IsEnglishPage ==
    /\ applied = "none"
    /\ applied' = "is_english_page"
    /\ LET cfg == [languages |-> f_languages, save_raw_html |-> FALSE]
       IN  f_out' = Outcome(is_english_page_raises(f_url, f_metadata, cfg),
                            is_english_page(f_url, f_metadata, cfg))
    /\ UNCHANGED <<crawlVars, searchVars, raceVars, promptVars, paramVars, f_url, f_metadata,
                   f_languages, f_path, f_name>>

\* is_english_page(url, metadata) of crawl.py, which has no language set
LegacyIsEnglishPage ==
    /\ applied = "none"
    /\ f_languages = {En}
    /\ applied' = "legacy_is_english_page"
    /\ f_out' = Outcome(legacy_is_english_page_raises(f_url, f_metadata),
                        legacy_is_english_page(f_url, f_metadata))
    /\ UNCHANGED <<crawlVars, searchVars, raceVars, promptVars, paramVars, f_url, f_metadata,
                   f_languages, f_path, f_name>>

(***************************************************************************)
(* get_safe_filename applied to one path.                                  *)
(***************************************************************************)
\* n times the character c
Repeat(c, n) == [i \in 1..n |-> c]

\* lengths of the run of letters in a path: short ones and the ones around
\* the limit of 200
RunLengths == (0..2) \cup ((NameMax - 4)..(NameMax + 3))

\* url_path values: slashes in front, a run of letters, a slash inside or
\* not, slashes or a dash behind
Paths ==
    { front \o Repeat("a", n) \o back :
        front \in {<< >>, <<"/">>, <<"/", "/">>, <<"/", "d", "/">>},
        n \in RunLengths,
        back \in {<< >>, <<"/">>, <<"/", "e">>, <<"-", "/", "/">>} }

\* get_safe_filename(url_path)
GetSafeFilename ==
    /\ applied = "none"
    /\ applied' = "get_safe_filename"
    /\ f_name' = get_safe_filename(f_path)
    /\ UNCHANGED <<crawlVars, searchVars, raceVars, promptVars, paramVars, f_url, f_metadata,
                   f_languages, f_out, f_path>>

\* get_safe_filename(url_path) of crawl.py
LegacyGetSafeFilename ==
    /\ applied = "none"
    /\ applied' = "legacy_get_safe_filename"
    /\ f_name' = legacy_get_safe_filename(f_path)
    /\ UNCHANGED <<crawlVars, searchVars, raceVars, promptVars, paramVars, f_url, f_metadata,
                   f_languages, f_out, f_path>>

(***************************************************************************)
(* save_page called by two pollers on the same output directory.  A call   *)
(* takes two steps: the checks of lines 263-274, then the writing of lines *)
(* 276-291; the other poller may take a step in between.                   *)
(***************************************************************************)
Pollers == {"p1", "p2"}

\* the records the pollers handle: U1 and U2 derive the same file name
RacePages == { it \in Items : it.markdown \in {"c1", "c2", "c3"} }

RaceConfig == [languages |-> {En}, save_raw_html |-> FALSE]

RaceRet(r, why) == [ret |-> r, why |-> why]

\* no poller runs
RaceIdle ==
    /\ r_pc = [p \in Pollers |-> "idle"]
    /\ r_page = [p \in Pollers |-> NoItem]
    /\ r_files = [f \in FileNames |-> NoFile]
    /\ r_ret = [p \in Pollers |-> RaceRet("none", "none")]
    /\ r_log = << >>

(***************************************************************************)
(* The content of a page in the prompt of each judging path.               *)
(***************************************************************************)
\* result["markdown"][:5000] of _deep_search
DeepCap == 5000

\* content[:199000] of analyze_content
AnalyzeCap == 199000

AnalyzeName == "analyze_content"

\* A page content is written as its runs: <<Run("a", 3), Run("b", 2)>> is
\* the str aaabb.  No run is empty and neighbours differ in their character.
Run(c, n) == [char |-> c, len |-> n]

\* len(text)
RECURSIVE TextLen(_)
TextLen(text) ==
    IF text = << >> THEN 0 ELSE text[1].len + TextLen(Tail(text))

\* text[:n]
RECURSIVE Prefix(_, _)
Prefix(text, n) ==
    IF text = << >> \/ n = 0 THEN << >>
    ELSE IF text[1].len <= n
      THEN <<text[1]>> \o Prefix(Tail(text), n - text[1].len)
    ELSE <<Run(text[1].char, n)>>

\* the content part of analysis_prompt in _deep_search
DeepPromptContent(markdown) == Prefix(markdown, DeepCap)

\* the content part of prompt in analyze_content
AnalyzePromptContent(content) == Prefix(content, AnalyzeCap)

\* the content part of check_prompt in find_objective_in_top_pages:
\* {scrape_result['markdown']}
TopPagesPromptContent(markdown) == markdown

\* lengths of the first run of a page content: short ones and the ones
\* around the two caps
ContentLengths ==
    (1..2) \cup ((DeepCap - 2)..(DeepCap + 2))
           \cup ((AnalyzeCap - 2)..(AnalyzeCap + 2))

\* page contents: the empty str, and a run of a followed by up to two b
Contents ==
    { << >> } \cup
    { <<Run("a", n)>> \o (IF m = 0 THEN << >> ELSE <<Run("b", m)>>) :
        n \in ContentLengths, m \in 0..2 }

\* no prompt is built
PromptIdle ==
    /\ p_path = "none"
    /\ p_content = << >>
    /\ p_sent = << >>

BuildPrompt(by, sent) ==
    /\ p_path = "none"
    /\ p_path' = by
    /\ p_sent' = sent
    /\ UNCHANGED <<crawlVars, searchVars, callVars, raceVars, paramVars,
                   p_content>>

DeepPrompt == BuildPrompt(DeepName, DeepPromptContent(p_content))
AnalyzePrompt == BuildPrompt(AnalyzeName, AnalyzePromptContent(p_content))
TopPagesPrompt == BuildPrompt(TopPagesName, TopPagesPromptContent(p_content))

(***************************************************************************)
(* CrawlConfig.to_api_params.                                              *)
(***************************************************************************)
\* the limit sent when max_pages is None
Unlimited == 1000000

\* Optional[int]
None == [none |-> TRUE, value |-> 0]
Some(n) == [none |-> FALSE, value |-> n]

\* the fields of a CrawlConfig after __post_init__, which has put [] for a
\* pattern list that was None
ParamConfigs ==
    [url : {"http://a/", "http://b/"},
     max_depth : {0, 10},
     allow_subdomains : BOOLEAN,
     allow_external : BOOLEAN,
     max_pages : {None, Some(0), Some(1), Some(50)},
     exclude_patterns : {<< >>, <<"/blog/*">>},
     include_patterns : {<< >>, <<"/docs/*">>}]

\* no key and no value
EmptyDict == [k \in {} |-> 0]

\* to_api_params with `self.max_pages or 1000000`
to_api_params_falsy_limit(cfg) ==
    ("url" :> cfg.url)
    @@ ("maxDepth" :> cfg.max_depth)
    @@ ("allowSubdomains" :> cfg.allow_subdomains)
    @@ ("limit" :> IF cfg.max_pages.none \/ cfg.max_pages.value = 0
                     THEN Unlimited ELSE cfg.max_pages.value)
    @@ ("allowExternalLinks" :> cfg.allow_external)
    @@ (IF cfg.exclude_patterns # << >>
          THEN "excludePatterns" :> cfg.exclude_patterns ELSE EmptyDict)
    @@ (IF cfg.include_patterns # << >>
          THEN "includePatterns" :> cfg.include_patterns ELSE EmptyDict)

to_api_params(cfg) ==
    ("url" :> cfg.url)
    @@ ("maxDepth" :> cfg.max_depth)
    @@ ("allowSubdomains" :> cfg.allow_subdomains)
    @@ ("limit" :> IF cfg.max_pages.none
                     THEN Unlimited ELSE cfg.max_pages.value)
    @@ ("allowExternalLinks" :> cfg.allow_external)
    @@ (IF cfg.exclude_patterns # << >>
          THEN "excludePatterns" :> cfg.exclude_patterns ELSE EmptyDict)
    @@ (IF cfg.include_patterns # << >>
          THEN "includePatterns" :> cfg.include_patterns ELSE EmptyDict)

\* no call of to_api_params
ParamsIdle ==
    /\ a_config = CHOOSE c \in ParamConfigs :
                      /\ c.url = "http://a/" /\ c.max_depth = 10
                      /\ c.allow_subdomains /\ ~c.allow_external
                      /\ c.max_pages = None
                      /\ c.exclude_patterns = << >>
                      /\ c.include_patterns = << >>
    /\ a_params = EmptyDict

\* config.to_api_params()
ToApiParams ==
    /\ applied = "none"
    /\ applied' = "to_api_params"
    /\ a_params' = to_api_params(a_config)
    /\ UNCHANGED <<crawlVars, searchVars, raceVars, promptVars, a_config,
                   f_url, f_metadata, f_languages, f_out, f_path, f_name>>

\* no function is called on its own
PureIdle == CallIdle /\ RaceIdle /\ PromptIdle /\ ParamsIdle

RaceFileOf(p) == get_safe_filename(UrlPath(r_page[p].metadata.url))

RaceReturn(p, r, why) ==
    /\ r_pc' = [r_pc EXCEPT ![p] = "done"]
    /\ r_ret' = [r_ret EXCEPT ![p] = RaceRet(r, why)]

\* lines 263-274: the language filter and `if filepath.exists()`
RaceCheck(p) ==
    /\ r_pc[p] = "check"
    /\ r_log' = Append(r_log, <<p, "check">>)
    /\ LET it == r_page[p]
       IN  IF ~is_english_page(it.metadata.url, it.metadata, RaceConfig)
             THEN RaceReturn(p, "False", "language")
           ELSE IF r_files[RaceFileOf(p)] # NoFile
             THEN RaceReturn(p, "False", "exists")
           ELSE /\ r_pc' = [r_pc EXCEPT ![p] = "write"]
                /\ UNCHANGED r_ret
    /\ UNCHANGED <<crawlVars, searchVars, callVars, promptVars, paramVars, r_page,
                   r_files>>

\* the writing done with open(filepath, "x"), which fails on a file that
\* exists by now
RaceWrite_Exclusive(p) ==
    /\ r_pc[p] = "write"
    /\ r_log' = Append(r_log, <<p, "write">>)
    /\ \E fault \in {"none", "open", "write"} :
          IF r_files[RaceFileOf(p)] # NoFile \/ fault = "open"
            THEN /\ RaceReturn(p, "False",
                              IF fault = "open" THEN "failed" ELSE "exists")
                 /\ UNCHANGED r_files
          ELSE IF fault = "write"
            THEN /\ RaceReturn(p, "False", "failed")
                 /\ r_files' = [r_files EXCEPT ![RaceFileOf(p)] = Truncated]
          ELSE /\ RaceReturn(p, "True", "written")
               /\ r_files' = [r_files EXCEPT
                                ![RaceFileOf(p)] = r_page[p].markdown]
    /\ UNCHANGED <<crawlVars, searchVars, callVars, promptVars, paramVars, r_page>>

\* lines 276-291: open(filepath, "w") and f.write(content), whatever the
\* directory holds by now
RaceWrite(p) ==
    /\ r_pc[p] = "write"
    /\ r_log' = Append(r_log, <<p, "write">>)
    /\ \E fault \in {"none", "open", "write"} :
          IF fault = "open"
            THEN /\ RaceReturn(p, "False", "failed")
                 /\ UNCHANGED r_files
          ELSE IF fault = "write"
            THEN /\ RaceReturn(p, "False", "failed")
                 /\ r_files' = [r_files EXCEPT ![RaceFileOf(p)] = Truncated]
          ELSE /\ RaceReturn(p, "True", "written")
               /\ r_files' = [r_files EXCEPT
                                ![RaceFileOf(p)] = r_page[p].markdown]
    /\ UNCHANGED <<crawlVars, searchVars, callVars, promptVars, paramVars, r_page>>

(***************************************************************************)
(* Specifications.                                                         *)
(***************************************************************************)
\* crawl_and_save is not running
CrawlIdle ==
    /\ script = Scripts
    /\ config = [languages |-> {}, save_raw_html |-> FALSE]
    /\ pc = "idle"
    /\ files = [f \in FileNames |-> NoFile]
    /\ htmls = {}
    /\ manifest = NoManifest
    /\ saved_count = 0
    /\ skipped_count = 0
    /\ error_count = 0
    /\ visited_urls = {}
    /\ last_status = << >>
    /\ status = Unread
    /\ item = NoItem
    /\ idx = 0
    /\ ret = NoRet
    /\ printed = FALSE
    /\ submits = 0
    /\ submitResult = "none"
    /\ polls = 0
    /\ manifestWrites = 0
    /\ exitKind = "none"
    /\ intr = [caught |-> "none", escaped |-> "none"]
    /\ atExit = [polls |-> 0, saves |-> 0, visited |-> {}]
    /\ saveCalls = [u \in URLs |-> 0]
    /\ outcome = [u \in URLs |-> "none"]
    /\ appearances = 0

\* a run of crawl_and_save
Init == CrawlInit /\ SearchIdle /\ PureIdle
Next == CrawlNext
Spec == Init /\ [][Next]_vars

\* the steps the process takes by itself; an interrupt comes from outside
ProgramStep ==
    \/ SubmitOk \/ SubmitNotOk \/ SubmitRaises
    \/ Mkdir \/ MkdirRaises
    \/ PollOk \/ PollNotOk \/ LegacyPollNotOk \/ PollRaises
    \/ EndOfData \/ SkipIncomplete \/ MissingUrl \/ AlreadyVisited \/ NewUrl
    \/ SavePage \/ LegacySavePage \/ Count \/ MarkVisited
    \/ Progress \/ Sleep
    \/ Finally \/ Summary

\* a run of scripts/crawl.py with the language filter on, in an empty
\* output directory, on a site whose pages are U1 and U3
LiveInit ==
    /\ Init
    /\ script = Scripts
    /\ config = [languages |-> {En}, save_raw_html |-> FALSE]
    /\ manifest = NoManifest
    /\ \A f \in FileNames : files[f] = NoFile

\* the record drawn is of a page of the site
LivePage == item'.metadata.url \in {"U1", "U3"}

LiveNext ==
    \/ SubmitOk \/ SubmitNotOk \/ SubmitRaises
    \/ Mkdir \/ MkdirRaises
    \/ PollOk \/ PollNotOk \/ PollRaises
    \/ EndOfData \/ SkipIncomplete \/ MissingUrl
    \/ (AlreadyVisited /\ LivePage)
    \/ (NewUrl /\ LivePage)
    \/ SavePage \/ Count \/ MarkVisited
    \/ Progress \/ Sleep
    \/ Interrupt \/ InterruptEscapes
    \/ Finally \/ Summary

\* that run in a process that keeps running
LiveSpec == LiveInit /\ [][LiveNext]_vars /\ WF_vars(ProgramStep)

\* one search request
SearchInit ==
    /\ CrawlIdle
    /\ entry \in Entries
    /\ requested \in SearchTypes
    /\ objective \in {"", "pricing"}
    /\ SearchStart
    /\ PureIdle

SearchNext ==
    \/ CliMain \/ CallProcess \/ ProcessNoObjective \/ Process
    \/ CallSearchContent \/ SearchContent
    \/ QuickHint \/ QuickMap \/ QuickScrape
    \/ DeepMap \/ DeepCandidate \/ DeepFinish
    \/ SelectiveMap \/ SelectiveSelectors \/ SelectiveCandidate
    \/ SelectiveFinish

SearchSpec == SearchInit /\ [][SearchNext]_vars

\* one call of the page filter
FilterInit ==
    /\ CrawlIdle
    /\ SearchIdle
    /\ applied = "none"
    /\ f_url \in FilterUrls
    /\ f_metadata \in FilterMetadata
    /\ f_languages \in LanguageSets
    /\ f_out = NoOut
    /\ f_path = << >>
    /\ f_name = << >>
    /\ RaceIdle
    /\ PromptIdle
    /\ ParamsIdle

FilterNext == IsEnglishPage \/ LegacyIsEnglishPage

FilterSpec == FilterInit /\ [][FilterNext]_vars

\* one call of get_safe_filename
NameInit ==
    /\ CrawlIdle
    /\ SearchIdle
    /\ applied = "none"
    /\ f_url = "U1"
    /\ f_metadata = CHOOSE m \in FilterMetadata : ~m.present
    /\ f_languages = {}
    /\ f_out = NoOut
    /\ f_path \in Paths
    /\ f_name = << >>
    /\ RaceIdle
    /\ PromptIdle
    /\ ParamsIdle

NameNext == GetSafeFilename \/ LegacyGetSafeFilename

NameSpec == NameInit /\ [][NameNext]_vars

\* one call of find_objective_in_top_pages(map_website, objective) with
\* the links of a map call
TopPagesInit ==
    /\ CrawlIdle
    /\ PureIdle
    /\ entry = TopPagesName
    /\ requested = "none"
    /\ objective = "pricing"
    /\ s_pc = "top_scrape"
    /\ search_type = "unset"
    /\ strategy = "none"
    /\ calls = << >>
    /\ map_search_parameter = NoHint
    /\ links \in {LinksOf(n) : n \in 0..MaxLinks}
    /\ cand = 0
    /\ results = << >>
    /\ judged = << >>
    /\ selectors = NoSelectors
    /\ answer = Pending
    /\ failure = "none"

TopPagesNext == TopScrape \/ TopScraped \/ TopJudge \/ TopFinish

TopPagesSpec == TopPagesInit /\ [][TopPagesNext]_vars

\* two pollers, each in one call of save_page, on one output directory
\* that may hold index.md from an earlier run
RaceInit ==
    /\ CrawlIdle
    /\ SearchIdle
    /\ CallIdle
    /\ PromptIdle
    /\ ParamsIdle
    /\ r_pc = [p \in Pollers |-> "check"]
    /\ r_page \in [Pollers -> RacePages]
    /\ \E old \in {NoFile, OldContent} :
          r_files = [f \in FileNames |->
                       IF f = get_safe_filename(UrlPath("U3")) THEN old
                       ELSE NoFile]
    /\ r_ret = [p \in Pollers |-> RaceRet("none", "none")]
    /\ r_log = << >>

RaceNext ==
    \/ \E p \in Pollers : RaceCheck(p)
    \/ \E p \in Pollers : RaceWrite(p)

RaceSpec == RaceInit /\ [][RaceNext]_vars

\* one judge prompt for one page
PromptInit ==
    /\ CrawlIdle
    /\ SearchIdle
    /\ CallIdle
    /\ RaceIdle
    /\ ParamsIdle
    /\ p_path = "none"
    /\ p_content \in Contents
    /\ p_sent = << >>

PromptNext == DeepPrompt \/ AnalyzePrompt \/ TopPagesPrompt

PromptSpec == PromptInit /\ [][PromptNext]_vars

\* one call of to_api_params on one configuration
ParamsInit ==
    /\ CrawlIdle
    /\ SearchIdle
    /\ CallIdle
    /\ RaceIdle
    /\ PromptIdle
    /\ a_config \in ParamConfigs
    /\ a_params = EmptyDict

ParamsNext == ToApiParams

ParamsSpec == ParamsInit /\ [][ParamsNext]_vars


(***************************************************************************)
(* Properties of crawl_and_save.                                           *)
(***************************************************************************)
FileOf(u) == get_safe_filename(UrlPath(u))

CounterSum == saved_count + skipped_count + error_count

\* the record whose handling an interrupt cut short, if any: the interrupt
\* arrived between the return of save_page and visited_urls.add(url)
CutShort(u) ==
    /\ intr.caught \in {"count", "mark"}
    /\ item # NoItem
    /\ url = u

\* the record being handled: save_page has returned for it and
\* visited_urls.add(url) is still to come
InHand(u) ==
    /\ pc \in {"count", "mark"}
    /\ url = u

\* C1: in a run of scripts/crawl.py save_page is called at most once per
\* URL and never with a URL that is in visited_urls, and every URL it was
\* called with is in visited_urls once its outcome (saved, skipped or
\* raised) has been handled: the only URL tried and not in the set is the
\* one in hand, or the one an interrupt cut short.
C1_SaveAtMostOncePerUrl ==
    script = Scripts =>
        /\ \A u \in URLs : saveCalls[u] <= 1
        /\ pc = "save" => url \notin visited_urls
        /\ \A u \in URLs :
              (saveCalls[u] > 0 /\ u \notin visited_urls) =>
                  (InHand(u) \/ CutShort(u))
        /\ \A u \in URLs :
              (outcome[u] # "none" /\ pc \in {"items", "progress", "sleep", "poll"})
                  => u \in visited_urls

\* the save of a URL raised, was counted, and the URL is in the set
C1_Witness ==
    /\ script = Scripts
    /\ \E u \in URLs : outcome[u] = "raised" /\ u \in visited_urls
    /\ \E u \in URLs : outcome[u] = "skipped" /\ u \in visited_urls
    /\ appearances > Cardinality(visited_urls)

\* C2: no step changes the content of a .md file that exists; a save_page
\* call whose target exists returns False (unless the language filter
\* raised before the check), in both crawl.py and scripts/crawl.py.
C2_NeverOverwrites ==
    [][ /\ \A f \in FileNames : files[f] # NoFile => files'[f] = files[f]
        /\ (pc = "save" /\ pc' = "count" /\ files[FileOf(url)] # NoFile) =>
              /\ files' = files
              /\ ret'.why # "raised" => ret'.ret = "False" ]_vars

\* a save_page call found its target written by an earlier call of this run
\* and left it alone
C2_Witness ==
    /\ pc = "count"
    /\ ret.why = "exists"
    /\ files[FileOf(url)] \notin {NoFile, OldContent, item.markdown}

\* C3: a run of scripts/crawl.py that has entered the poll loop calls
\* save_visited_urls exactly once before it ends, whichever way the loop was
\* left (completed, interrupt, failed poll, exception), and never before
\* the loop is left.  (An interrupt that arrives in the finally block before
\* the call is the one way past it.)
C3_ManifestWrittenOnce ==
    script = Scripts =>
        /\ manifestWrites <= 1
        /\ pc \in LoopPcs \cup {"submit", "mkdir", "finally"} => manifestWrites = 0
        /\ (exitKind # "none" /\ pc \in EndPcs \cup {"summary"}
              /\ intr.escaped # "finally") =>
              /\ manifestWrites = 1
              /\ manifest = save_visited_urls(visited_urls)
        /\ (pc \in EndPcs /\ submitResult = "ok" /\ polls > 0) => exitKind # "none"

\* the run ended by sys.exit(1) after an exception in the loop body, with
\* the manifest written
C3_Witness ==
    /\ script = Scripts
    /\ pc = "exit1"
    /\ exitKind = "exception"
    /\ manifestWrites = 1
    /\ manifest.lines # << >>

\* C4: an interrupt inside the poll loop of scripts/crawl.py is taken by
\* the loop's handler: the run goes to the finally block, no poll and no
\* save_page call follows, the manifest holds exactly the URLs of the
\* records handled before the interrupt, and the run returns after the
\* summary.
C4_InterruptDrains ==
    (script = Scripts /\ exitKind = "interrupt") =>
        /\ pc \in {"finally", "summary", "returned", "interrupted_out"}
        /\ pc = "interrupted_out" => intr.escaped \in {"finally", "summary"}
        /\ polls = atExit.polls
        /\ TotalSaves = atExit.saves
        /\ visited_urls = atExit.visited
        /\ pc \in {"summary", "returned"} =>
              /\ manifest.exists
              /\ {manifest.lines[i] : i \in 1..Len(manifest.lines)} = atExit.visited
              /\ Len(manifest.lines) = Cardinality(atExit.visited)

\* the interrupt arrived while the third record was being saved: two URLs
\* in the manifest, the run returned
C4_Witness ==
    /\ script = Scripts
    /\ exitKind = "interrupt"
    /\ intr.caught = "save"
    /\ pc = "returned"
    /\ Len(manifest.lines) = 2
    /\ atExit.saves = 2

\* a record whose URL was visited during an earlier poll comes first in the
\* snapshot of a later poll
SecondOccurrence ==
    /\ script = Scripts
    /\ AlreadyVisited
    /\ polls >= 2
    /\ idx = 0

C7_WriteFailureCountedAsError ==
    (script = Scripts /\ pc = "mark" /\ ret.fault # "none") =>
        /\ outcome[url] = "raised"
        /\ error_count >= 1
        /\ skipped_count < CounterSum

\* C8: after a submit request answered with a non-success status the run
\* has returned: one submit call, no poll, no save_page call, nothing
\* written, the loop never entered.
C8_SubmitFailureIsTerminal ==
    submitResult = "notok" =>
        /\ pc = "returned"
        /\ submits = 1
        /\ polls = 0
        /\ TotalSaves = 0
        /\ saved_count = 0
        /\ htmls = {}
        /\ \A f \in FileNames : files[f] \in {NoFile, OldContent}
        /\ manifestWrites = 0
        /\ exitKind = "none"

C8_Witness ==
    /\ submitResult = "notok"
    /\ pc = "returned"
    /\ submits = 1

\* C9 as stated: after a poll answered with a non-success status no poll
\* and no save_page call follows, and the run ends with the URLs visited
\* before the failure written to the manifest (crawl.py and
\* scripts/crawl.py).
C9_PollFailureTerminalWithManifest ==
    exitKind = "pollfail" =>
        /\ pc \notin LoopPcs
        /\ polls = atExit.polls
        /\ TotalSaves = atExit.saves
        /\ visited_urls = atExit.visited
        /\ pc = "returned" => manifest = save_visited_urls(atExit.visited)


(***************************************************************************)
(* Properties of the search pipeline.                                      *)
(***************************************************************************)
\* C10: the search strategy that runs is the one the caller selected: for a
\* search asked for with type t, through search_content, through
\* process(Mode.SEARCH, ...) or through the `search --type t` command, the
\* strategy method entered is the one of t and every remote call is made by
\* that method, none by another strategy.
C10_SelectedStrategyRuns ==
    /\ strategy # "none" => strategy = StrategyOf(requested)
    /\ \A i \in 1..Len(calls) : calls[i].by = StrategyOf(requested)


\* the answer of a deep search that returned a result
DeepReturned == answer.kind = "result" /\ answer.search_type = "deep"

\* the relevance scores of a results list, in order
ScoresOf(rs) == [i \in 1..Len(rs) |-> rs[i].analysis.relevance_score]

\* C11: the results list returned by the deep search is ordered by
\* relevance_score descending, and candidates of equal relevance_score keep
\* their map order.
C11_DeepResultsStableDescending ==
    DeepReturned =>
        \A i, j \in 1..Len(answer.results) :
            i < j =>
                LET a == answer.results[i]
                    b == answer.results[j]
                IN  /\ a.analysis.relevance_score >= b.analysis.relevance_score
                    /\ a.analysis.relevance_score = b.analysis.relevance_score
                          => a.url < b.url

\* matching candidates with scores 40, 90, 90, 10 in map order came back as
\* the two 90s in map order, then 40, then 10
C11_Witness ==
    /\ DeepReturned
    /\ ScoresOf(answer.results) = <<90, 90, 40, 10>>
    /\ [i \in 1..4 |-> answer.results[i].url] = <<2, 3, 1, 4>>


\* the remote calls of one kind made so far, and how many went to link k
CallsOf(op) == SelectSeq(calls, LAMBDA c : c.op = op)
CallCount(op, k) ==
    Cardinality({i \in 1..Len(calls) : calls[i].op = op /\ calls[i].target = k})

\* the candidates passed whose completion was an analysis with
\* matches_objective true
DeepMatching ==
    {k \in 1..Len(judged) :
        /\ judged[k].kind = "analysis"
        /\ judged[k].analysis.has_matches_objective
        /\ judged[k].analysis.matches_objective}

\* C12: the deep search scrapes and judges only the first 5 map candidates,
\* each on its own: every one of them is scraped once, in map order,
\* whatever happened to the ones before (scrape failure, model-call failure,
\* completion that is not JSON), each one scraped is judged once, no other
\* link is touched, and a returned results list holds exactly the
\* candidates whose judgment has matches_objective true.
C12_DeepJudgesFirstFiveIndependently ==
    strategy = DeepName =>
        /\ Len(judged) = cand
        /\ cand <= Len(Take(links, TopDeep))
        /\ s_pc = "done" => cand = Len(Take(links, TopDeep))
        /\ [i \in 1..Len(CallsOf("scrape")) |-> CallsOf("scrape")[i].target]
              = [k \in 1..cand |-> links[k]]
        /\ \A k \in 1..Len(links) :
              CallCount("model", k) =
                 IF k <= cand /\ judged[k].kind # "scrape_raises" THEN 1 ELSE 0
        /\ DeepReturned =>
              /\ {answer.results[i].url : i \in 1..Len(answer.results)}
                    = DeepMatching
              /\ Len(answer.results) = Cardinality(DeepMatching)
              /\ \A i \in 1..Len(answer.results) :
                    answer.results[i].analysis
                       = judged[answer.results[i].url].analysis

\* six links: the first three candidates failed in the three ways, the
\* fourth and fifth matched and are the result, the sixth was not touched
C12_Witness ==
    /\ DeepReturned
    /\ Len(links) = 6
    /\ Len(judged) = 5
    /\ judged[1].kind = "scrape_raises"
    /\ judged[2].kind = "model_raises"
    /\ judged[3].kind = "not_json"
    /\ {answer.results[i].url : i \in 1..Len(answer.results)} = {4, 5}
    /\ CallCount("scrape", 6) = 0


\* the candidates passed whose extraction came back with content
Extracted == {k \in 1..Len(judged) : judged[k].kind = "extracted"}

\* the answer of a selective search that returned a result
SelectiveReturned == answer.kind = "result" /\ answer.search_type = "selective"

\* C13: the selective search runs the extraction for the first 3 map
\* candidates only, one call each in map order, a failed extraction does
\* not end the loop, the results hold one entry per candidate whose
\* extraction succeeded, in map order, and the strategy returns (a result
\* or None), it never raises.
C13_SelectiveExtractsFirstThree ==
    strategy = SelectiveName =>
        /\ Len(judged) = cand
        /\ cand <= Len(Take(links, TopSelective))
        /\ (s_pc = "done" /\ selectors # NoSelectors) =>
              cand = Len(Take(links, TopSelective))
        /\ [i \in 1..Len(CallsOf("extract")) |-> CallsOf("extract")[i].target]
              = [k \in 1..cand |-> links[k]]
        /\ {results[i].url : i \in 1..Len(results)} = Extracted
        /\ \A i, j \in 1..Len(results) : i < j => results[i].url < results[j].url
        /\ answer.kind \in {"pending", "None", "result"}
        /\ SelectiveReturned =>
              /\ answer.results = results
              /\ Len(answer.results) = Cardinality(Extracted)

\* three candidates of which the second extraction raised: two entries,
\* the first and the third, and a fourth link not touched
C13_Witness ==
    /\ SelectiveReturned
    /\ Len(links) = 4
    /\ [k \in 1..3 |-> judged[k].kind] = <<"extracted", "raises", "extracted">>
    /\ [i \in 1..Len(answer.results) |-> answer.results[i].url] = <<1, 3>>
    /\ CallCount("extract", 4) = 0


\* the map call of the quick search answered with an empty list of links
QuickMapEmpty ==
    /\ strategy = QuickName
    /\ Len(CallsOf("map")) = 1
    /\ failure # "map"
    /\ links = << >>

\* C14: when the map call of the quick search answers with an empty list,
\* the strategy returns None, no exception is involved, and no scrape call
\* is made.
C14_QuickEmptyMapNoResult ==
    QuickMapEmpty =>
        /\ s_pc = "done"
        /\ answer = ReturnsNone
        /\ failure = "none"
        /\ CallsOf("scrape") = << >>
        /\ Len(calls) = 2

\* the `search --type deep` command ended in a quick search whose map call
\* found nothing
C14_Witness ==
    /\ QuickMapEmpty
    /\ entry = "cli"
    /\ calls[2].search = "h2"
    /\ answer.kind = "None"

\* the quick search is over and its map call answered with links
QuickMapped == strategy = QuickName /\ s_pc = "done" /\ links # << >>

\* C15: a quick search whose map call answers with links makes exactly one
\* model call, one map call with the text of that completion as search
\* parameter, and one scrape call, of the first link; a result carries that
\* link, its scraped content and the search parameter of the map call.
C15_QuickOneModelOneMapOneScrape ==
    QuickMapped =>
        /\ Len(calls) = 3
        /\ calls[1] = Call(QuickName, "model", 0, NoHint)
        /\ calls[2] = Call(QuickName, "map", 0, map_search_parameter)
        /\ map_search_parameter \in Hints
        /\ calls[3] = Call(QuickName, "scrape", links[1], NoHint)
        /\ answer.kind \in {"result", "None"}
        /\ answer.kind = "None" <=> failure = "scrape"
        /\ answer.kind = "result" =>
              /\ answer.source_url = links[1]
              /\ answer.relevant_info = links[1]
              /\ answer.search_type = "quick"
              /\ answer.search_parameter = calls[2].search

\* three links, the first one scraped and returned with the hint h2
C15_Witness ==
    /\ QuickMapped
    /\ Len(links) = 3
    /\ answer.kind = "result"
    /\ answer.search_parameter = "h2"
    /\ CallCount("scrape", 1) = 1

\* C16: in each strategy a failure of the model call that derives the
\* search parameter or the selectors (or of json.loads of the selectors),
\* or of the map call, ends the strategy there: the failed call is the last
\* one, no link is scraped, judged or extracted, and None is returned.
C16_DerivationOrMapFailureAborts ==
    failure \in {"model", "map", "json"} =>
        /\ s_pc = "done"
        /\ answer = ReturnsNone
        /\ calls[Len(calls)].op = (IF failure = "json" THEN "model" ELSE failure)
        /\ calls[Len(calls)].target = 0
        /\ CallsOf("scrape") = << >>
        /\ CallsOf("extract") = << >>
        /\ cand = 0
        /\ judged = << >>
        /\ results = << >>

\* the map call of a selective search found three links and the model call
\* for the selectors raised
C16_Witness ==
    /\ strategy = SelectiveName
    /\ failure = "model"
    /\ Len(links) = 3
    /\ Len(calls) = 2
    /\ s_pc = "done"


(***************************************************************************)
(* Properties of the page filter.                                          *)
(***************************************************************************)
\* the four steps of the language policy, on the path of the URL
PolicyAccepts(path, metadata, langs) ==
    IF langs = {} THEN TRUE
    ELSE IF \E lang \in langs : Contains(path, <<"-">> \o lang) THEN TRUE
    ELSE IF metadata.hasLanguage
      THEN \E lang \in langs : StartsWith(metadata.language, lang)
    ELSE TRUE

\* the language value is absent or a non-empty str
PlainLanguage(metadata) ==
    /\ metadata.languageIsStr
    /\ metadata.hasLanguage => metadata.language # << >>

\* C17 as stated: for every URL, metadata and language set the page filter
\* (is_english_page of scripts/crawl.py, and of crawl.py with the language
\* set {"en"}) returns what the four-step policy gives: empty set accepts;
\* else a -<lang> marker in the URL path accepts; else a metadata language
\* decides by prefix; else accept.
C17_FilterEqualsPolicy ==
    (applied # "none" /\ PlainLanguage(f_metadata)) =>
        f_out = Outcome(FALSE,
                        PolicyAccepts(UrlPath(f_url), f_metadata, f_languages))


(***************************************************************************)
(* Properties of get_safe_filename.                                        *)
(***************************************************************************)
\* C18: the file name derived from a URL path is determined by the path,
\* holds no "/", and is of bounded length (at most 200 characters and the
\* extension); when the cleaned path is longer than 200 characters the
\* name is the hex digest and the extension, at most 64 characters.
C18_SafeNameBounded ==
    applied = "get_safe_filename" =>
        /\ f_name = get_safe_filename(f_path)
        /\ \A i \in 1..Len(f_name) : f_name[i] # "/"
        /\ Len(f_name) <= NameMax + 3
        /\ Len(CleanedPath(f_path)) > NameMax =>
              /\ f_name = Md5HexDigest(CleanedPath(f_path)) \o <<".", "m", "d">>
              /\ Len(f_name) <= 64

\* a path with a slash inside whose cleaned form has 201 characters was
\* given the digest as name
C18_Witness ==
    /\ applied = "get_safe_filename"
    /\ Len(CleanedPath(f_path)) = NameMax + 1
    /\ \E i \in 2..(Len(f_path) - 1) : f_path[i] = "/"
    /\ Len(f_name) = DigestLen + 3


(***************************************************************************)
(* Properties of the manifest.                                             *)
(***************************************************************************)
\* C19: the manifest written at the end of a run replaces a visited_urls.txt
\* that was there before and holds exactly the URLs of the visited set at
\* that moment, each once, one per line, in ascending str order; until it
\* is written the file of the earlier run is as it was.
C19_ManifestSortedAndReplaced ==
    /\ manifestWrites = 0 => manifest \in {NoManifest, OldManifest}
    /\ manifestWrites >= 1 =>
          /\ manifest.exists
          /\ {manifest.lines[i] : i \in 1..Len(manifest.lines)} = visited_urls
          /\ Len(manifest.lines) = Cardinality(visited_urls)
          /\ \A i, j \in 1..Len(manifest.lines) :
                i < j => StrLess(UrlStr(manifest.lines[i]),
                                 UrlStr(manifest.lines[j]))

\* a run that found the manifest of an earlier run and visited the three
\* URLs left them in order: http://a/, http://a/d-en, http://a/d/en
C19_Witness ==
    /\ script = Scripts
    /\ pc = "returned"
    /\ manifestWrites = 1
    /\ manifest.lines = <<"U3", "U2", "U1">>
    /\ exitKind = "completed"


(***************************************************************************)
(* Properties of the poll loop.                                            *)
(***************************************************************************)
\* C20: the poll loop has no time limit and no cap of its own: it is left
\* only because a response reports completed, an interrupt arrives, a poll
\* fails or an exception is raised; after a response that is not completed
\* it sleeps and polls again; and a run whose loop was left on completed
\* goes on to return (unless an interrupt arrives in the cleanup).
C20_LoopRunsUntilCompleted ==
    /\ [][ (pc \in LoopPcs /\ pc' \notin LoopPcs) =>
              \/ exitKind' \in {"completed", "interrupt", "pollfail", "exception"}
              \/ intr'.escaped \in LoopPcs ]_vars
    /\ [][ (pc = "progress" /\ pc' \in LoopPcs) =>
              (status'.status = "running" /\ pc' = "sleep") ]_vars
    /\ [][ (pc = "sleep" /\ exitKind' = exitKind /\ intr' = intr) =>
              pc' = "poll" ]_vars
    /\ (exitKind = "completed") ~> (pc = "returned" \/ intr.escaped # "none")

\* the loop polled twice, the second response reported completed, and the
\* run returned
C20_Witness ==
    /\ script = Scripts
    /\ polls = 2
    /\ exitKind = "completed"
    /\ status.status = "completed"
    /\ pc = "returned"
    /\ intr.escaped = "none"

(***************************************************************************)
(* Properties of save_page under two concurrent pollers.                   *)
(***************************************************************************)
\* the place of a step in the order of steps
StepAt(p, step) == CHOOSE i \in 1..Len(r_log) : r_log[i] = <<p, step>>

Wrote(p) == r_ret[p] = RaceRet("True", "written")

\* both pollers wrote the same file
BothWrote ==
    /\ Wrote("p1")
    /\ Wrote("p2")
    /\ RaceFileOf("p1") = RaceFileOf("p2")

\* each poller made its existence check before the other one wrote
ChecksBeforeWrites ==
    /\ StepAt("p1", "check") < StepAt("p2", "write")
    /\ StepAt("p2", "check") < StepAt("p1", "write")

\* the writing step of poller p
WriteStepOf(p) == r_pc[p] = "write" /\ r_pc'[p] = "done"

\* C21: the existence check and the write of save_page are two steps.  A
\* poller that passed the check writes whatever the directory holds by then:
\* its writing step either fails in open or write, or leaves its own
\* content in the file.  So two pollers with the same derived file name can
\* both write the file, and they do so only when each passed its check
\* before the other wrote; calls that do not overlap write at most once.
C21_CheckThenWriteNotAtomic ==
    /\ [][\A p \in Pollers :
            WriteStepOf(p) =>
                \/ r_ret'[p] = RaceRet("False", "failed")
                \/ /\ r_ret'[p] = RaceRet("True", "written")
                   /\ r_files'[RaceFileOf(p)] = r_page[p].markdown]_vars
    /\ [](BothWrote => ChecksBeforeWrites)

\* two pollers handled different URLs of one file name and both wrote it
C21_Witness ==
    /\ BothWrote
    /\ r_page["p1"].metadata.url # r_page["p2"].metadata.url
    /\ r_files[RaceFileOf("p1")] = r_page["p2"].markdown

(***************************************************************************)
(* Properties of find_objective_in_top_pages.                              *)
(***************************************************************************)
TopPagesDone == entry = TopPagesName /\ s_pc = "done"

\* the completion of judged[i] is not the sentinel and parses as JSON
ValidJson(i) ==
    /\ judged[i].completion \in Completions
    /\ judged[i].completion # Sentinel
    /\ JsonLoads(judged[i].completion).ok

\* the completion of judged[i] is the sentinel or does not parse
NotMet(i) ==
    /\ judged[i].completion \in Completions
    /\ ~ValidJson(i)

\* C22: in find_objective_in_top_pages the scraped candidates are judged
\* in map order; a completion equal to the sentinel or not valid JSON
\* makes the loop go on to the next candidate and never ends the call
\* with an error; the parsed value of the first valid JSON completion is
\* returned and no later candidate is judged; when no candidate
\* qualifies the call returns None.
C22_FirstValidJsonWins ==
    TopPagesDone =>
      /\ failure \in {"none", "scrape", "model"}
      /\ Len(judged) <= Len(results)
      /\ \A i \in 1..Len(judged) :
            /\ judged[i].target = results[i].url
            /\ i < Len(judged) => NotMet(i)
            /\ NotMet(i) =>
                  \/ i < Len(judged)
                  \/ i = Len(results) /\ answer = ReturnsNone
            /\ ValidJson(i) =>
                  /\ i = Len(judged)
                  /\ answer = JsonLoads(judged[i].completion).value
      /\ \A i, k \in 1..Len(results) :
            i < k => results[i].url < results[k].url
      /\ (failure = "none" /\ \A i \in 1..Len(judged) : NotMet(i)) =>
            /\ Len(judged) = Len(results)
            /\ answer = ReturnsNone

\* the first candidate answered with a text that is not JSON, the second
\* with a JSON object, which is returned
C22_Witness ==
    /\ TopPagesDone
    /\ Len(judged) = 2
    /\ judged[1].completion = "Sorry, no"
    /\ ValidJson(2)
    /\ answer.kind = "dict"

(***************************************************************************)
(* Properties of the poll loop.                                            *)
(***************************************************************************)
\* C23: the loop is left on the first snapshot whose status is completed:
\* the status is read after the records of the snapshot were handled, so
\* every record passed to save_page is in visited_urls when the loop ends;
\* from then on there is no sleep, no poll and no submit.
C23_CompletedSnapshotEndsLoop ==
    /\ [][(status'.status = "completed" /\ status.status # "completed") =>
             /\ pc = "progress"
             /\ pc' = "finally"
             /\ exitKind' = "completed"]_vars
    /\ [](status.status = "completed" => pc \notin LoopPcs)
    /\ [](exitKind = "completed" =>
             /\ status.status = "completed"
             /\ atExit = ExitSnapshot
             /\ item = NoItem
             /\ ret = NoRet
             /\ \A u \in URLs : saveCalls[u] > 0 => u \in visited_urls)
    /\ [][exitKind = "completed" =>
             /\ polls' = polls
             /\ submits' = submits
             /\ pc' \notin LoopPcs]_vars

\* the first snapshot was completed and carried a record, which was saved
\* and added to visited_urls before the run returned
C23_Witness ==
    /\ pc = "returned"
    /\ exitKind = "completed"
    /\ polls = 1
    /\ saved_count = 1
    /\ visited_urls # {}

\* the step that reads (completed, total) of the snapshot and reports
ProgressStep == pc = "progress" /\ status.status = "unread" /\ status' # status

\* C24: the progress lines are printed after a poll only when the pair
\* (completed, total) of its snapshot differs from last_status, and
\* last_status is the pair of the poll before, because every poll leaves
\* its pair there; so two polls in a row with the same pair do not both
\* print.
C24_ProgressOnlyOnChange ==
    [][ProgressStep =>
          /\ printed' => status'.pair # last_status
          /\ last_status' = status'.pair]_vars

\* the second poll came back with the pair of the first one, 1 of 2, and
\* printed nothing
C24_Witness ==
    /\ polls = 2
    /\ status.status = "running"
    /\ status.pair = <<1, 2>>
    /\ last_status = <<1, 2>>
    /\ ~printed
    /\ script = Scripts

(***************************************************************************)
(* Properties of visited_urls.                                             *)
(***************************************************************************)
\* the URLs on the lines of the manifest
ManifestSet == {manifest.lines[i] : i \in 1..Len(manifest.lines)}

\* C25: no step of crawl_and_save takes a URL out of visited_urls; the
\* step that writes the manifest writes the set as it is then, and the
\* set does not change after that, so the manifest holds the final set.
C25_VisitedOnlyGrows ==
    /\ [][visited_urls \subseteq visited_urls']_vars
    /\ [][manifestWrites' # manifestWrites =>
             /\ visited_urls' = visited_urls
             /\ {manifest'.lines[i] : i \in 1..Len(manifest'.lines)}
                   = visited_urls]_vars
    /\ [][manifestWrites >= 1 => visited_urls' = visited_urls]_vars
    /\ []((pc \in EndPcs /\ manifestWrites >= 1) => ManifestSet = visited_urls)

\* two URLs were added one after the other and the manifest holds both
C25_Witness ==
    /\ pc = "returned"
    /\ manifestWrites = 1
    /\ Cardinality(visited_urls) = 2
    /\ ManifestSet = visited_urls
    /\ polls = 2

(***************************************************************************)
(* The steps of get_safe_filename, character by character.                 *)
(***************************************************************************)
\* the places of url_path that hold a character other than "/"
NonSlash(p) == {i \in 1..Len(p) : p[i] # "/"}

FirstOf(S) == CHOOSE i \in S : \A k \in S : i <= k
LastOf(S) == CHOOSE i \in S : \A k \in S : k <= i

\* url_path between its first and its last character other than "/", with
\* "-" for every "/" in between
Dashed(p) ==
    LET from == FirstOf(NonSlash(p))
        to   == LastOf(NonSlash(p))
    IN  [i \in 1..(to - from + 1) |->
            IF p[from + i - 1] = "/" THEN "-" ELSE p[from + i - 1]]

\* C26: the name get_safe_filename returns is, for every path: the path
\* without its leading and trailing "/" and with "-" for each "/" left;
\* `index` when nothing is left; the hex digest of that string exactly when
\* it is longer than 200 characters, so a string of exactly 200 characters
\* is kept; and `.md` behind it.
C26_NameDerivationSteps ==
    applied \in {"get_safe_filename", "legacy_get_safe_filename"} =>
        LET stem == SubSeq(f_name, 1, Len(f_name) - 3)
        IN  /\ Len(f_name) >= 3
            /\ SubSeq(f_name, Len(f_name) - 2, Len(f_name)) = <<".", "m", "d">>
            /\ IF NonSlash(f_path) = {}
                 THEN stem = <<"i", "n", "d", "e", "x">>
               ELSE IF Len(Dashed(f_path)) > 200
                 THEN stem = Md5HexDigest(Dashed(f_path))
               ELSE stem = Dashed(f_path)

\* /d/aaa...a with 198 letters a: the cleaned path d-aaa...a has exactly 200
\* characters and is the name
C26_Witness ==
    /\ applied = "get_safe_filename"
    /\ Len(f_name) = 203
    /\ f_path[1] = "/"
    /\ f_name[2] = "-"
    /\ f_path[3] = "/"
    /\ Len(f_path) = 201

(***************************************************************************)
(* Properties of the .html sibling.                                        *)
(***************************************************************************)
\* the step in which save_page of scripts/crawl.py runs for the record
SavePageStep == script = Scripts /\ pc = "save" /\ pc' = "count"

\* config.save_raw_html and "rawHtml" in metadata
WantsSibling == config.save_raw_html /\ item.metadata.hasRawHtml

\* the call wrote the .md file of the record
WroteMd ==
    /\ files[FileOf(url)] = NoFile
    /\ files'[FileOf(url)] = item.markdown

\* the call wrote the .html sibling of that file
WroteSibling == FileOf(url) \in htmls' /\ FileOf(url) \notin htmls

\* the call skipped the page: language filter or existing file
SkippedPage == ret'.why \in {"language", "exists"}

\* C27 as stated: a call of save_page writes the sibling exactly when the
\* flag is set, the metadata carries raw markup and the call wrote the .md
\* file; a call that skips the page writes no sibling.
C27_Original ==
    [][SavePageStep =>
          /\ WroteSibling <=> (WantsSibling /\ WroteMd)
          /\ SkippedPage => htmls' = htmls]_vars

\* C27: a call of save_page writes the sibling only when the flag is set,
\* the metadata carries raw markup and the call wrote the .md file, and it
\* does so in every such call that returns True; when writing the sibling
\* raises, the .md file stays, there is no sibling and the call returns
\* False.  A call that skips the page writes neither file.
C27_SiblingOnlyWithMd ==
    [][SavePageStep =>
          /\ WroteSibling => (WantsSibling /\ WroteMd)
          /\ WroteSibling <=> (WantsSibling /\ ret'.ret = "True")
          /\ (WantsSibling /\ WroteMd /\ ~WroteSibling) =>
                /\ ret'.ret = "False"
                /\ ret'.fault = "html"
          /\ SkippedPage => (htmls' = htmls /\ files' = files)]_vars

\* a page with raw markup was saved with its sibling under the flag
C27_Witness ==
    /\ script = Scripts
    /\ pc = "count"
    /\ config.save_raw_html
    /\ item.metadata.hasRawHtml
    /\ ret.ret = "True"
    /\ FileOf(url) \in htmls
    /\ files[FileOf(url)] = item.markdown

(***************************************************************************)
(* Properties of the answer of _deep_search.                               *)
(***************************************************************************)
\* the candidates that were scraped and for which the model call came back
\* with a completion
ScrapedAndJudged ==
    {k \in 1..Len(judged) : judged[k].kind \in {"analysis", "not_json"}}

\* C28: total_analyzed of the answer of a deep search is the number of
\* candidates among the first 5 that were scraped and judged.
C28_TotalAnalyzedCountsJudged ==
    DeepReturned => answer.total_analyzed = Cardinality(ScrapedAndJudged)

\* the completion for candidate k is a JSON object with relevance_score,
\* key_points and matches_objective
CompleteAnalysis(k) ==
    /\ judged[k].kind = "analysis"
    /\ judged[k].analysis.has_relevance_score
    /\ judged[k].analysis.has_key_points
    /\ judged[k].analysis.has_matches_objective

\* the candidates with a complete analysis that matches the objective
CompleteMatching ==
    {k \in 1..Len(judged) :
        CompleteAnalysis(k) /\ judged[k].analysis.matches_objective}

\* C29: in the deep search a completion that is valid JSON but lacks
\* relevance_score, key_points or matches_objective only costs its own
\* candidate: once the map call has answered, the candidates with a
\* complete matching analysis are returned, ordered by relevance_score,
\* and no candidate with an incomplete analysis is among them.
C29_IncompleteAnalysisDropsOneCandidate ==
    (strategy = DeepName /\ s_pc = "done" /\ failure # "map") =>
        IF CompleteMatching = {}
          THEN answer = ReturnsNone
          ELSE /\ DeepReturned
               /\ {answer.results[i].url : i \in 1..Len(answer.results)}
                     = CompleteMatching
               /\ \A i, j \in 1..Len(answer.results) :
                     i < j => answer.results[i].analysis.relevance_score
                                 >= answer.results[j].analysis.relevance_score

(***************************************************************************)
(* Properties of the judge prompts.                                        *)
(***************************************************************************)
\* the caps on page content found in the judging code
Caps == {DeepCap, AnalyzeCap}

\* C30: the content a judge prompt carries is a prefix of the page content
\* of at most a fixed cap of characters, in the deep search, in
\* analyze_content and in find_objective_in_top_pages.
C30_PromptContentCapped ==
    p_path # "none" =>
        \E cap \in Caps :
            /\ TextLen(p_sent) <= cap
            /\ p_sent = Prefix(p_content, cap)

(***************************************************************************)
(* Properties of to_api_params.                                            *)
(***************************************************************************)
\* C31: the body of the submit request always has the keys url, maxDepth,
\* allowSubdomains, allowExternalLinks and limit; limit is max_pages when
\* max_pages is not None, 0 included, and 1000000 when it is None;
\* excludePatterns and includePatterns are there exactly when their list
\* is not empty, and there is no other key.
C31_SubmitBody ==
    applied = "to_api_params" =>
        /\ {"url", "maxDepth", "allowSubdomains", "allowExternalLinks",
            "limit"} \subseteq DOMAIN a_params
        /\ DOMAIN a_params \subseteq
              {"url", "maxDepth", "allowSubdomains", "allowExternalLinks",
               "limit", "excludePatterns", "includePatterns"}
        /\ a_params["url"] = a_config.url
        /\ a_params["maxDepth"] = a_config.max_depth
        /\ a_params["allowSubdomains"] = a_config.allow_subdomains
        /\ a_params["allowExternalLinks"] = a_config.allow_external
        /\ a_params["limit"] = IF a_config.max_pages.none THEN 1000000
                               ELSE a_config.max_pages.value
        /\ "excludePatterns" \in DOMAIN a_params
              <=> a_config.exclude_patterns # << >>
        /\ "includePatterns" \in DOMAIN a_params
              <=> a_config.include_patterns # << >>
        /\ "excludePatterns" \in DOMAIN a_params
              => a_params["excludePatterns"] = a_config.exclude_patterns
        /\ "includePatterns" \in DOMAIN a_params
              => a_params["includePatterns"] = a_config.include_patterns

\* max_pages 0 went out as limit 0, with exclude patterns and without
\* include patterns
C31_Witness ==
    /\ applied = "to_api_params"
    /\ a_config.max_pages = Some(0)
    /\ a_params["limit"] = 0
    /\ DOMAIN a_params = {"url", "maxDepth", "allowSubdomains",
                          "allowExternalLinks", "limit", "excludePatterns"}

(***************************************************************************)
(* Properties of URLs that derive the same file name.                      *)
(***************************************************************************)
\* the contents the service reports for a URL
ContentsOf(u) == {it.markdown : it \in {i \in Items : i.metadata.url = u}}

\* the URLs other than the one in hand that derive its file name
Rivals == {u \in URLs \ {url} : FileOf(u) = FileOf(url)}

FilesWritten ==
    {f \in FileNames : files[f] \notin {NoFile, OldContent, Truncated}}

\* C33: when a run of scripts/crawl.py has ended, saved_count is the number
\* of .md files the run created, also when writing the .html sibling
\* failed after the .md file was written.
C33_SavedCountEqualsFiles ==
    (script = Scripts /\ pc \in EndPcs) =>
        saved_count = Cardinality(FilesWritten)

(***************************************************************************)
(* Properties of an interrupted run.                                       *)
(***************************************************************************)
\* C34: when a run of scripts/crawl.py that was interrupted in the poll
\* loop has returned, every URL whose .md file this run wrote is on a line
\* of the manifest.
C34_InterruptedRunListsEveryFile ==
    (script = Scripts /\ exitKind = "interrupt" /\ pc = "returned") =>
        \A u \in URLs :
            files[FileOf(u)] \in ContentsOf(u) => u \in ManifestSet

(***************************************************************************)
(* Properties of the answers of the deep and the selective search.         *)
(***************************************************************************)
\* C35: the deep and the selective search return None, never a result
\* with an empty list, when no candidate qualifies: the map has no links,
\* every candidate failed, or none matched; the results list of a result
\* that is returned is not empty.
C35_NoEmptyResult ==
    /\ (answer.kind = "result" /\ strategy \in {DeepName, SelectiveName}) =>
          answer.results # << >>
    /\ (strategy = DeepName /\ s_pc = "done" /\ DeepMatching = {}) =>
          answer = ReturnsNone
    /\ (strategy = SelectiveName /\ s_pc = "done" /\ Extracted = {}) =>
          answer = ReturnsNone

\* a deep search over three candidates: all were scraped and judged, none
\* matched, the answer is None
C35_Witness ==
    /\ strategy = DeepName
    /\ s_pc = "done"
    /\ failure = "none"
    /\ Len(links) = 3
    /\ \A k \in 1..3 : judged[k].kind = "analysis"
    /\ DeepMatching = {}
    /\ answer = ReturnsNone

(***************************************************************************)
(* C36: search_content and failures of the calls it makes.                *)
(***************************************************************************)
\* search_content has been entered
InSearchContent == strategy # "none"

\* a model, map, scrape or extract call of the request raised
CallFailed ==
    \/ failure \in {"model", "map", "scrape"}
    \/ \E i \in 1..Len(judged) :
          judged[i].kind \in {"scrape_raises", "model_raises", "raises"}

\* a candidate of the deep or selective loop that went through without an
\* exception
WentThrough(i) == judged[i].kind \in {"analysis", "extracted", "empty"}

C37_AbsorbedOnlyInLoop ==
    script = Scripts =>
        /\ intr.caught # "none" => intr.caught \in LoopPcs
        /\ intr.escaped # "none" =>
              /\ intr.escaped \in {"submit", "mkdir", "finally", "summary"}
              /\ pc = "interrupted_out"
        /\ intr.escaped \in {"submit", "mkdir"} =>
              /\ manifestWrites = 0
              /\ exitKind = "none"
        /\ pc \in {"returned", "exit1"} => intr.escaped = "none"

\* an interrupt during the creation of the output directory, after a
\* successful submission, has left crawl_and_save without a manifest
C37_Witness ==
    /\ script = Scripts
    /\ submitResult = "ok"
    /\ intr.escaped = "mkdir"
    /\ pc = "interrupted_out"
    /\ manifestWrites = 0

(***************************************************************************)
(* C38: records without markdown, metadata or url.                        *)
(***************************************************************************)
\* the record the loop has just read
Incomplete(it) == ~(it.hasMarkdown /\ it.hasMetadata)
Urlless(it) == it.hasMarkdown /\ it.hasMetadata /\ ~it.metadata.hasUrl

\* the loop of scripts/crawl.py reads its next record
ReadsRecord == script = Scripts /\ pc = "items" /\ idx' = idx + 1

\* the run was ended by a record without url
EndedByUrlless == script = Scripts /\ exitKind = "exception" /\ Urlless(item)

\* C38: in scripts/crawl.py a record without "markdown" or without
\* "metadata" is passed over: no counter, file or visited URL changes and
\* the loop stays at the records of the snapshot; a record with both keys
\* and no url in its metadata raises out of the loop: no further record,
\* save_page call or poll follows, the manifest is written with the URLs
\* visited up to then, and the run ends in sys.exit(1)
C38_IncompleteSkippedUrllessFatal ==
    /\ [][(ReadsRecord /\ Incomplete(item')) =>
             /\ pc' = "items"
             /\ UNCHANGED <<countVars, visited_urls, dirVars, recordHist, exitHist>>
         ]_vars
    /\ [][(ReadsRecord /\ Urlless(item')) =>
             /\ pc' = "finally"
             /\ exitKind' = "exception"
             /\ atExit' = ExitSnapshot
             /\ UNCHANGED <<countVars, visited_urls, dirVars, recordHist>>
         ]_vars
    /\ [](EndedByUrlless =>
             /\ pc \in {"finally", "summary", "exit1", "interrupted_out"}
             /\ pc = "interrupted_out" => intr.escaped \in {"finally", "summary"}
             /\ atExit = ExitSnapshot
             /\ pc \in {"summary", "exit1"} =>
                   /\ manifestWrites = 1
                   /\ manifest = save_visited_urls(atExit.visited))
    /\ [][EndedByUrlless => UNCHANGED <<item, idx, countVars, visited_urls, recordHist>>
         ]_vars

\* the first snapshot brought a record that was saved and then a record
\* without url: the manifest lists the saved URL and the run ended in
\* sys.exit(1)
C38_Witness ==
    /\ EndedByUrlless
    /\ pc = "exit1"
    /\ polls = 1 /\ idx = 2
    /\ saved_count = 1
    /\ Cardinality(visited_urls) = 1
    /\ manifestWrites = 1
    /\ Len(manifest.lines) = 1

====
